---- MODULE Spec2Model ----
(***************************************************************************)
(* Motion smoothing engine of open-screenstudio: the 1-D spring model      *)
(* (spring.ts), the incremental CursorSmoother and the batch resampler     *)
(* smoothMouseMoves (cursorSmoothing.ts).                                  *)
(* Around it: the RecordingView and the Recording Coordinator it invokes,  *)
(* the pointer/click capture channel with its polling thread, and the      *)
(* editor preview with its CursorOverlay.                                  *)
(*                                                                         *)
(* Numbers.  The code computes in IEEE doubles; the model computes the     *)
(* same expressions in exact rational arithmetic.  A rational is a pair    *)
(* <<n, d>> in lowest terms with d > 0.  Raw sample coordinates, times and *)
(* teleport thresholds are integers.  Configurations with mass = 0 (a      *)
(* division by zero, NaN/Infinity in the code) are not in the model's      *)
(* input sets.                                                             *)
(***************************************************************************)
EXTENDS Integers, Naturals, Sequences, FiniteSets, TLC

VARIABLES
    \* ---- smoothMouseMoves (batch resampler) ----
    moves,        \* the raw stream passed to smoothMouseMoves
    config,       \* the SpringConfig passed to smoothMouseMoves
    outputFps,    \* the outputFps passed to smoothMouseMoves
    outputs,      \* the arrays returned so far, one per completed call
    targets,      \* per frame of the last call: the index of the sample taken as raw
    threw,        \* TRUE once a call has ended in an exception
    \* ---- a CursorSmoother instance driven incrementally ----
    cs,           \* <<>> before construction, <<object>> after
    csOut,        \* the SmoothedPositions its update calls returned, in order
    csLog,        \* <<>> or <<r>>: its last update: arguments, pre-state, object after
    csOps,        \* number of method calls made on it by the free driver
    csCall,       \* <<>> or <<c>>: the last method called on it: its arguments, or what it returned
    \* ---- one spring axis stepped repeatedly toward a fixed target ----
    sp,           \* SpringState
    spTarget,     \* the fixed target
    spConfig,     \* the SpringConfig
    spDt,         \* the fixed step
    spStart,      \* the position it started from, at rest
    spSteps,      \* steps counted by the bounded stepping loop
    spReturned,   \* <<>> or <<the state the last stepSpring call on sp returned>>
    \* ---- RecordingView (RecordingView.tsx) ----
    recordingState,     \* "idle" | "recording" | "paused"
    isLoading,          \* BOOLEAN
    error,              \* <<>> (null) or <<message>>
    hasPermission,      \* <<>> (null) or <<BOOLEAN>>
    selectedDisplayId,  \* <<>> (null) or <<id>>
    micEnabled,         \* BOOLEAN
    cameraEnabled,      \* BOOLEAN
    recordingTime,      \* 0, or 1 for any elapsed time above 0
    invoked,            \* every invoke made so far, in order, with the state it was made in
    requests,           \* invocations not yet taken up by the backend, in order
    responses,          \* results not yet delivered to the awaiting handlers
    \* ---- Recording Coordinator and its channels (backend) ----
    session,            \* "Idle" | "Starting" | "Active" | "Paused" | "Stopping" | "Failed"
    sessionChannels,    \* the channels of the session, in start order
    chan,               \* state of each channel
    stops,              \* number of stop() calls each channel of the session received
    files,              \* channels that have an output file in outputDir
    bundle,             \* <<>> or <<the session bundle descriptor of the last stop>>
    op,                 \* <<>> or <<the call the coordinator is executing>>
    startFailure,       \* <<>> or <<index of the channel whose start failed>>
    \* ---- pointer/click capture channel (InputTrackingChannel) ----
    isRecording,        \* is_recording: AtomicBool
    pollingPaused,      \* the polling thread is suspended by pause()
    threadPc,           \* polling thread: "none" | "check" | "tick" | "sample" | "sleep" | "done"
    tickStart,          \* start: Instant of the current tick
    now,                \* the monotonic clock
    startTime,          \* start_time: the session time origin on the monotonic clock
    mouseMoves,         \* mouse_moves
    mouseClicks,        \* mouse_clicks
    cursors,            \* cursors: id -> <<>> (unseen) or <<descriptor>>
    captures,           \* number of cursor image captures made per id
    channelPc,          \* "initialized" | "active" | "joining" | "stopped"
    flushed,            \* <<>> or <<the buffers as written by stop()>>
    appendedAfterStop,  \* samples appended since stop() cleared the flag
    \* ---- the editor preview and its CursorOverlay (CursorOverlay.tsx) ----
    recordingBundle,    \* <<>> (null) or <<the loaded bundle: cursors, videoMetadata>>
    cursorPosition,     \* <<>> (null) or <<SmoothedPosition>>
    previewSize,        \* [width, height] of the preview container
    cursorSize,         \* the cursorSize multiplier, a rational
    showDebug,          \* BOOLEAN
    rendered,           \* the elements CursorOverlay rendered last, <<>> for none
    \* ---- EditorView: playback loop, seek, spring sliders ----
    isPlaying,             \* BOOLEAN
    currentTime,           \* ms; in the demo loop also currentTimeRef, which it mirrors
    duration,              \* ms
    springConfig,          \* the springConfig state
    videoTime,             \* videoRef.current.currentTime, in ms
    animationRef,          \* <<>> (null) or <<id of the frame requested last>>
    lastAnimationTimeRef,  \* timestamp of the last frame, 0 for none
    frameRequests,         \* ids of the animation-frame callbacks the browser holds
    nextFrameId,           \* the id the next requestAnimationFrame returns
    frameClock,            \* the timestamp of the last animation frame
    framesRun              \* frames run since playback last started

batchVars == <<moves, config, outputFps, outputs, targets, threw>>
csVars == <<cs, csOut, csLog, csOps, csCall>>
springVars == <<sp, spTarget, spConfig, spDt, spStart, spSteps, spReturned>>
viewVars == <<recordingState, isLoading, error, hasPermission, selectedDisplayId,
              micEnabled, cameraEnabled, recordingTime>>
ipcVars == <<invoked, requests, responses>>
coordVars == <<session, sessionChannels, chan, stops, files, bundle, op, startFailure>>
recVars == <<viewVars, ipcVars, coordVars>>
simVars == <<batchVars, csVars, springVars>>
threadVars == <<threadPc, tickStart>>
bufferVars == <<mouseMoves, mouseClicks, cursors, captures, appendedAfterStop>>
ptrVars == <<isRecording, pollingPaused, threadVars, now, startTime, bufferVars, channelPc,
             flushed>>
ovVars == <<recordingBundle, cursorPosition, previewSize, cursorSize, showDebug, rendered>>
edVars == <<isPlaying, currentTime, duration, springConfig, videoTime, animationRef,
            lastAnimationTimeRef, frameRequests, nextFrameId, frameClock, framesRun>>
appVars == <<recVars, ptrVars, ovVars, edVars>>
offRecVars == <<simVars, ptrVars, ovVars, edVars>>
offPtrVars == <<simVars, recVars, ovVars, edVars>>
offEdVars == <<batchVars, springVars, csOps, recVars, ptrVars, previewSize, cursorSize,
               showDebug, rendered>>
offOvVars == <<simVars, recVars, ptrVars, edVars>>
vars == <<batchVars, csVars, springVars, appVars>>

----------------------------------------------------------------------------
(* Bounds of the model *)

MaxMoves == 3
MaxCalls == 2
MaxOps == 4
MaxCoord == 7
MaxInvokes == 4
MaxSamples == 2
MaxClicks == 1
MaxTime == 2
MaxSteps == 3

----------------------------------------------------------------------------
(* Exact arithmetic on rationals <<n, d>> *)

Abs(i) == IF i < 0 THEN -i ELSE i

\* the element of a one-element set; the operators below bind their arguments
\* through it so that each argument is evaluated once
Only(S) == CHOOSE x \in S : TRUE

RECURSIVE GCD(_, _)
GCD(a, b) == IF b = 0 THEN a ELSE Only({GCD(p[1], p[2]) : p \in {<<b, a % b>>}})

\* n/d with the common factor g taken out and the sign carried by the numerator
Reduced(n, d, g) ==
    IF d < 0 THEN <<(-n) \div g, (-d) \div g>> ELSE <<n \div g, d \div g>>

Rat(n, d) ==
    Only({Reduced(p[1], p[2], p[3]) :
              p \in {<<q[1], q[2], GCD(Abs(q[1]), Abs(q[2]))>> : q \in {<<n, d>>}}})

R(i) == <<i, 1>>
\* a + b over the least common denominator, g the common factor of the denominators
SumOver(a, b, g) == Rat(a[1] * (b[2] \div g) + b[1] * (a[2] \div g), (a[2] \div g) * b[2])
RAdd(a, b) ==
    Only({SumOver(p[1], p[2], p[3]) :
              p \in {<<q[1], q[2], GCD(q[1][2], q[2][2])>> : q \in {<<a, b>>}}})
RNeg(a) == Only({<<-p[1], p[2]>> : p \in {a}})
RSub(a, b) == RAdd(a, RNeg(b))
RMul(a, b) == Only({Rat(p[1][1] * p[2][1], p[1][2] * p[2][2]) : p \in {<<a, b>>}})
RDiv(a, b) == Only({Rat(p[1][1] * p[2][2], p[1][2] * p[2][1]) : p \in {<<a, b>>}})
RAbs(a) == Only({<<Abs(p[1]), p[2]>> : p \in {a}})
RLt(a, b) == \E p \in {<<a, b>>} : p[1][1] * p[2][2] < p[2][1] * p[1][2]
RLe(a, b) == \E p \in {<<a, b>>} : p[1][1] * p[2][2] <= p[2][1] * p[1][2]
\* Math.ceil: the least integer >= a (\div rounds toward minus infinity)
RCeil(a) == -((-a[1]) \div a[2])
Max(a, b) == IF a > b THEN a ELSE b

----------------------------------------------------------------------------
(* spring.ts *)

DEFAULT_SPRING_CONFIG == [stiffness |-> R(800), damping |-> R(80), mass |-> R(1)]

createSpringState(initial) == [position |-> initial, velocity |-> R(0)]

\* faulty variant of stepSpring: explicit Euler, the position advances with the
\* velocity of before the step
stepSpringExplicit(state, target, cfg, dt) ==
    LET displacement == RSub(state.position, target)
        springForce == RMul(RNeg(cfg.stiffness), displacement)
        dampingForce == RMul(RNeg(cfg.damping), state.velocity)
        acceleration == RDiv(RAdd(springForce, dampingForce), cfg.mass)
        newVelocity == RAdd(state.velocity, RMul(acceleration, dt))
        newPosition == RAdd(state.position, RMul(state.velocity, dt))
    IN  [position |-> newPosition, velocity |-> newVelocity]

stepSpring(state, target, cfg, dt) ==
    LET displacement == RSub(state.position, target)
        springForce == RMul(RNeg(cfg.stiffness), displacement)
        dampingForce == RMul(RNeg(cfg.damping), state.velocity)
        acceleration == RDiv(RAdd(springForce, dampingForce), cfg.mass)
        newVelocity == RAdd(state.velocity, RMul(acceleration, dt))
        newPosition == RAdd(state.position, RMul(newVelocity, dt))
    IN  [position |-> newPosition, velocity |-> newVelocity]

\* faulty variant of stepSpringCall: the step is made in place, on the object passed in
stepSpringInPlace(state, target, cfg, dt) ==
    [state |-> stepSpring(state, target, cfg, dt),
     returned |-> stepSpring(state, target, cfg, dt)]

\* a call of stepSpring: the object passed in, as it is after the call, and the new
\* object returned
stepSpringCall(state, target, cfg, dt) ==
    [state |-> state, returned |-> stepSpring(state, target, cfg, dt)]

SETTLE_THRESHOLD == <<1, 10>>

isSpringSettled(state, target, threshold) ==
    /\ RLt(RAbs(RSub(state.position, target)), threshold)
    /\ RLt(RAbs(state.velocity), threshold)

createSpring2D(x, y) == [x |-> createSpringState(x), y |-> createSpringState(y)]

stepSpring2D(state, targetX, targetY, cfg, dt) ==
    [x |-> stepSpring(state.x, targetX, cfg, dt),
     y |-> stepSpring(state.y, targetY, cfg, dt)]

----------------------------------------------------------------------------
(* cursorSmoothing.ts: CursorSmoother *)

DEFAULT_TELEPORT_THRESHOLD == 500

\* constructor(config, teleportThreshold): spring at (0,0), no previous raw position
NewCursorSmoother(cfg, threshold) ==
    [spring |-> createSpring2D(R(0), R(0)),
     config |-> cfg,
     lastRawPosition |-> <<>>,
     teleportThreshold |-> threshold]

\* faulty variant of updateConfig: the spring is put to rest where it is
updateConfigAtRest(self, cfg) ==
    [self EXCEPT !.config = cfg,
                 !.spring = createSpring2D(self.spring.x.position, self.spring.y.position)]

updateConfig(self, cfg) == [self EXCEPT !.config = cfg]

setTeleportThreshold(self, threshold) == [self EXCEPT !.teleportThreshold = threshold]

\* Math.sqrt(dx*dx + dy*dy) > threshold, decided exactly on the squares
distanceExceeds(dx, dy, threshold) ==
    \/ threshold < 0
    \/ dx * dx + dy * dy > threshold * threshold

\* the teleport test of update: a previous raw position exists and the jump is large
teleportDetected(self, raw) ==
    /\ self.lastRawPosition # <<>>
    /\ distanceExceeds(raw.x - self.lastRawPosition[1].x,
                       raw.y - self.lastRawPosition[1].y,
                       self.teleportThreshold)

\* faulty variant of springBeforeStep: the teleport reset is lost
springKeptOnTeleport(self, raw) == self.spring

\* the spring update steps from: reset to the raw position on a teleport
springBeforeStep(self, raw) ==
    IF teleportDetected(self, raw)
    THEN createSpring2D(R(raw.x), R(raw.y))
    ELSE self.spring

\* update(raw, dt): the smoother after the call
update(self, raw, dt) ==
    [self EXCEPT
        !.spring = stepSpring2D(springBeforeStep(self, raw), R(raw.x), R(raw.y),
                                self.config, dt),
        !.lastRawPosition = <<[x |-> raw.x, y |-> raw.y]>>]

\* faulty variant of updateResult: the sample's cursor is not carried over
updateResultDefaultCursor(after, raw) ==
    [x |-> after.spring.x.position,
     y |-> after.spring.y.position,
     rawX |-> raw.x,
     rawY |-> raw.y,
     cursorId |-> "arrow"]

\* update(raw, dt): the SmoothedPosition returned, read from the smoother after the call
updateResult(after, raw) ==
    [x |-> after.spring.x.position,
     y |-> after.spring.y.position,
     rawX |-> raw.x,
     rawY |-> raw.y,
     cursorId |-> raw.cursorId]

\* faulty variant of reset: the previous raw position is left as it was
resetSpringOnly(self, x, y) ==
    [self EXCEPT !.spring = createSpring2D(R(x), R(y))]

reset(self, x, y) ==
    [self EXCEPT !.spring = createSpring2D(R(x), R(y)),
                 !.lastRawPosition = <<[x |-> x, y |-> y]>>]

getCurrentPosition(self) == [x |-> self.spring.x.position, y |-> self.spring.y.position]

getCurrentVelocity(self) == [x |-> self.spring.x.velocity, y |-> self.spring.y.velocity]

----------------------------------------------------------------------------
(* cursorSmoothing.ts: smoothMouseMoves, the pieces of its body *)

\* moves[moves.length - 1]: undefined (modelled as <<>>) on an empty array
lastMove(ms) == IF Len(ms) = 0 THEN <<>> ELSE <<ms[Len(ms)]>>

frameDurationMsOf(fps) == RDiv(R(1000), R(fps))

\* faulty variant of frameCountOf: the floor of one frame is lost
frameCountNoFloor(totalDurationMs, frameDurationMs) ==
    RCeil(RDiv(R(totalDurationMs), frameDurationMs))

\* faulty variant of frameCountOf: Math.floor in place of Math.ceil
frameCountFloor(totalDurationMs, frameDurationMs) ==
    Max(1, -RCeil(RNeg(RDiv(R(totalDurationMs), frameDurationMs))))

\* Math.max(1, Math.ceil(totalDurationMs / frameDurationMs))
frameCountOf(totalDurationMs, frameDurationMs) ==
    Max(1, RCeil(RDiv(R(totalDurationMs), frameDurationMs)))

\* faulty variant of advanceRawIndex: a sample exactly at the frame time is not yet taken
RECURSIVE advanceStrict(_, _, _)
advanceStrict(ms, i, frameTimeMs) ==
    IF i + 1 <= Len(ms) /\ RLt(R(ms[i + 1].processTimeMs), frameTimeMs)
    THEN advanceStrict(ms, i + 1, frameTimeMs)
    ELSE i

\* the while loop: rawIndex after it (indices are 1-based)
RECURSIVE advanceRawIndex(_, _, _)
advanceRawIndex(ms, i, frameTimeMs) ==
    IF i + 1 <= Len(ms) /\ RLe(R(ms[i + 1].processTimeMs), frameTimeMs)
    THEN advanceRawIndex(ms, i + 1, frameTimeMs)
    ELSE i

\* const dt = frameDurationMs / 1000
batchDt(frameDurationMs) == RDiv(frameDurationMs, R(1000))

\* faulty variant of batchSmoother: "Initialize at first position" is lost
batchSmootherNoReset(cfg, first) == NewCursorSmoother(cfg, DEFAULT_TELEPORT_THRESHOLD)

\* faulty variant of batchSmoother: one smoother shared with the incremental path and
\* initialised only when it does not exist yet
batchSmootherShared(cfg, first) ==
    IF cs = <<>>
    THEN reset(NewCursorSmoother(cfg, DEFAULT_TELEPORT_THRESHOLD), first.x, first.y)
    ELSE updateConfig(cs[1], cfg)

\* new CursorSmoother(config) followed by smoother.reset(moves[0].x, moves[0].y)
batchSmoother(cfg, first) ==
    reset(NewCursorSmoother(cfg, DEFAULT_TELEPORT_THRESHOLD), first.x, first.y)

----------------------------------------------------------------------------
(* Inputs the model draws from *)

Points == {[x |-> 0, y |-> 0, cursorId |-> "arrow"],
           [x |-> 3, y |-> 4, cursorId |-> "hand"],
           [x |-> 600, y |-> 0, cursorId |-> "arrow"]}

Times == {0, 50, 100}

Samples == {[x |-> p.x, y |-> p.y, cursorId |-> p.cursorId, processTimeMs |-> t] :
              p \in Points, t \in Times}

\* RawMotionSample streams: non-decreasing in processTimeMs (single producer)
Streams ==
    {s \in UNION {[1..n -> Samples] : n \in 0..MaxMoves} :
        \A i \in 1..(Len(s) - 1) : s[i].processTimeMs <= s[i + 1].processTimeMs}

\* a configuration the editor's sliders can produce besides the default
SLIDER_SPRING_CONFIG == [stiffness |-> R(400), damping |-> R(20), mass |-> R(2)]

\* configurations the spec calls invalid (non-positive stiffness or mass)
InvalidConfigs == {[stiffness |-> R(0), damping |-> R(80), mass |-> R(1)],
                   [stiffness |-> R(800), damping |-> R(80), mass |-> R(-1)]}

ValidConfig(cfg) == cfg.stiffness[1] > 0 /\ cfg.damping[1] >= 0 /\ cfg.mass[1] > 0

BatchConfigs == {DEFAULT_SPRING_CONFIG, SLIDER_SPRING_CONFIG,
                 [stiffness |-> R(0), damping |-> R(80), mass |-> R(1)]}

Fps == {20, 30}

SmootherConfigs == {DEFAULT_SPRING_CONFIG} \cup InvalidConfigs

Thresholds == {5, DEFAULT_TELEPORT_THRESHOLD}

\* raw samples the free driver feeds: steps of length 5 and 10
DriverSamples == {[x |-> 0, y |-> 0, cursorId |-> "arrow", processTimeMs |-> 0],
                  [x |-> 3, y |-> 4, cursorId |-> "hand", processTimeMs |-> 50],
                  [x |-> 6, y |-> 8, cursorId |-> "arrow", processTimeMs |-> 100]}

\* dt of the preview loop: 0 on the first frame, at most 0.1 s
Dts == {R(0), <<1, 10>>}

----------------------------------------------------------------------------
(* smoothMouseMoves *)

\* faulty variant of isEmptyStream: the early return is lost
neverEmptyStream(ms) == FALSE

\* moves.length === 0
isEmptyStream(ms) == Len(ms) = 0

\* the object passed to smoother.update: the sample's place and cursor, the frame's time
frameArg(raw, frameTimeMs) ==
    [x |-> raw.x, y |-> raw.y, cursorId |-> raw.cursorId, processTimeMs |-> frameTimeMs]

\* the locals after an iteration that took sample idx and left the smoother as `after`
\* st = [frame, rawIndex, smoother, result, targets] (rawIndex is 1-based here)
iterationEnd(st, idx, arg, after) ==
    [frame |-> st.frame + 1,
     rawIndex |-> idx,
     smoother |-> after,
     result |-> Append(st.result, updateResult(after, arg)),
     targets |-> Append(st.targets, idx)]

\* the iteration from the choice of the sample on: update and push
iterationFrom(ms, st, idx, frameTimeMs, dt) ==
    iterationEnd(st, idx, frameArg(ms[idx], frameTimeMs),
                 update(st.smoother, frameArg(ms[idx], frameTimeMs), dt))

\* one iteration of the for loop, on the locals
batchIteration(ms, fps, st) ==
    iterationFrom(ms, st,
                  advanceRawIndex(ms, st.rawIndex,
                                  RMul(R(st.frame), frameDurationMsOf(fps))),
                  RMul(R(st.frame), frameDurationMsOf(fps)),
                  batchDt(frameDurationMsOf(fps)))

\* for (let frame = 0; frame < frameCount; frame++)
RECURSIVE batchLoop(_, _, _, _)
batchLoop(ms, fps, frameCount, st) ==
    IF st.frame < frameCount
    THEN batchLoop(ms, fps, frameCount, batchIteration(ms, fps, st))
    ELSE st

\* smoothMouseMoves(moves, config, outputFps): the array returned (result), or threw;
\* targets is the index taken as raw in each frame
smoothMouseMoves(ms, cfg, fps) ==
    IF isEmptyStream(ms)
    THEN [threw |-> FALSE, result |-> <<>>, targets |-> <<>>]
    ELSE IF lastMove(ms) = <<>>
    THEN \* moves[moves.length - 1].processTimeMs on undefined: a TypeError
         [threw |-> TRUE, result |-> <<>>, targets |-> <<>>]
    ELSE LET frameCount == frameCountOf(lastMove(ms)[1].processTimeMs,
                                        frameDurationMsOf(fps))
             end == batchLoop(ms, fps, frameCount,
                              [frame |-> 0,
                               rawIndex |-> 1,
                               smoother |-> batchSmoother(cfg, ms[1]),
                               result |-> <<>>,
                               targets |-> <<>>])
         IN  [threw |-> FALSE, result |-> end.result, targets |-> end.targets]

\* one call of smoothMouseMoves on the inputs
Call ==
    /\ ~threw
    /\ Len(outputs) < MaxCalls
    /\ \E r \in {smoothMouseMoves(moves, config, outputFps)} :
           IF r.threw
           THEN threw' = TRUE /\ UNCHANGED <<outputs, targets>>
           ELSE /\ outputs' = Append(outputs, r.result)
                /\ targets' = r.targets
                /\ UNCHANGED threw
    /\ UNCHANGED <<moves, config, outputFps, csVars, springVars, appVars>>

----------------------------------------------------------------------------
(* The methods of the incrementally driven CursorSmoother *)

CsNew(cfg, threshold) ==
    /\ cs' = <<NewCursorSmoother(cfg, threshold)>>
    /\ csOut' = <<>>
    /\ csLog' = <<>>
    /\ csCall' = <<[op |-> "constructor", x |-> 0, y |-> 0, arg |-> cfg]>>

CsUpdateConfig(cfg) ==
    /\ cs # <<>>
    /\ cs' = <<updateConfig(cs[1], cfg)>>
    /\ csCall' = <<[op |-> "updateConfig", x |-> 0, y |-> 0, arg |-> cfg]>>
    /\ UNCHANGED <<csOut, csLog>>

CsSetTeleportThreshold(threshold) ==
    /\ cs # <<>>
    /\ cs' = <<setTeleportThreshold(cs[1], threshold)>>
    /\ csCall' = <<[op |-> "setTeleportThreshold", x |-> 0, y |-> 0, arg |-> threshold]>>
    /\ UNCHANGED <<csOut, csLog>>

CsReset(x, y) ==
    /\ cs # <<>>
    /\ cs' = <<reset(cs[1], x, y)>>
    /\ csCall' = <<[op |-> "reset", x |-> x, y |-> y, arg |-> 0]>>
    /\ UNCHANGED <<csOut, csLog>>

CsUpdate(raw, dt) ==
    /\ cs # <<>>
    /\ \E after \in {update(cs[1], raw, dt)} :
           /\ cs' = <<after>>
           /\ csOut' = Append(csOut, updateResult(after, raw))
           /\ csLog' = <<[prev |-> cs[1].lastRawPosition,
                          threshold |-> cs[1].teleportThreshold,
                          config |-> cs[1].config,
                          x |-> raw.x, y |-> raw.y, cursorId |-> raw.cursorId,
                          dt |-> dt,
                          after |-> after]>>
           /\ csCall' = <<[op |-> "update", x |-> raw.x, y |-> raw.y, arg |-> dt]>>

CsGetCurrentPosition ==
    /\ cs # <<>>
    /\ \E at \in {getCurrentPosition(cs[1])} :
           csCall' = <<[op |-> "getCurrentPosition", x |-> at.x, y |-> at.y, arg |-> 0]>>
    /\ UNCHANGED <<cs, csOut, csLog>>

CsGetCurrentVelocity ==
    /\ cs # <<>>
    /\ \E v \in {getCurrentVelocity(cs[1])} :
           csCall' = <<[op |-> "getCurrentVelocity", x |-> v.x, y |-> v.y, arg |-> 0]>>
    /\ UNCHANGED <<cs, csOut, csLog>>

----------------------------------------------------------------------------
(* RecordingView.tsx: the view's state and its async handlers.  A handler    *)
(* runs to its await, the invocation travels to the backend, and the rest of *)
(* the handler runs when the result is delivered.                            *)

NoError == [channel |-> "none", cause |-> "none"]

NoConfig ==
    [displayId |-> 0, captureMicrophone |-> FALSE, captureWebcam |-> FALSE,
     trackInput |-> FALSE]

\* the config object of invoke("start_recording", {config})
startRecordingConfig ==
    [displayId |-> selectedDisplayId[1], captureMicrophone |-> micEnabled,
     captureWebcam |-> cameraEnabled, trackInput |-> TRUE]

\* Record Controls: which button is rendered and enabled
canStart(state, loading, displayId) == state = "idle" /\ displayId # <<>> /\ ~loading

\* faulty variant of canPause: the Pause button is rendered in every state
canPauseAlways(state) == TRUE

canPause(state) == state = "recording"

canResume(state) == state = "paused"

canStop(state, loading) == state \in {"recording", "paused"} /\ ~loading

\* String(err).includes("permission")
includesPermission(err) == err.cause = "permission"

\* faulty variant of recordingStateAfter: the state is set without regard to the result
recordingStateOptimistic(cmd, current, ok) ==
    CASE cmd = "start_recording" -> "recording"
      [] cmd = "stop_recording" -> "idle"
      [] cmd = "pause_recording" -> "paused"
      [] cmd = "resume_recording" -> "recording"

\* setRecordingState in the try block after the await; nothing in catch
recordingStateAfter(cmd, current, ok) ==
    IF ~ok THEN current
    ELSE CASE cmd = "start_recording" -> "recording"
           [] cmd = "stop_recording" -> "idle"
           [] cmd = "pause_recording" -> "paused"
           [] cmd = "resume_recording" -> "recording"

\* invoke(cmd): the invocation is on its way to the backend
Invoke(cmd, cfg) ==
    /\ Len(invoked) < MaxInvokes
    /\ invoked' = Append(invoked, [cmd |-> cmd, from |-> recordingState])
    /\ requests' = Append(requests, [id |-> Len(invoked) + 1, cmd |-> cmd, config |-> cfg])
    /\ UNCHANGED responses

handleStartRecording ==
    /\ canStart(recordingState, isLoading, selectedDisplayId)
    /\ error' = <<>>
    /\ isLoading' = TRUE
    /\ Invoke("start_recording", startRecordingConfig)
    /\ UNCHANGED <<recordingState, hasPermission, selectedDisplayId, micEnabled,
                   cameraEnabled, recordingTime, coordVars, offRecVars>>

\* the rest of handleStartRecording: try after the await, catch, finally
startRecordingReturns ==
    \E r \in responses :
        /\ r.cmd = "start_recording"
        /\ responses' = responses \ {r}
        /\ recordingState' = recordingStateAfter(r.cmd, recordingState, r.ok)
        /\ recordingTime' = IF r.ok THEN 0 ELSE recordingTime
        /\ error' = IF r.ok THEN error ELSE <<r.err>>
        /\ hasPermission' = IF ~r.ok /\ includesPermission(r.err)
                            THEN <<FALSE>> ELSE hasPermission
        /\ isLoading' = FALSE
        /\ UNCHANGED <<selectedDisplayId, micEnabled, cameraEnabled, invoked, requests,
                       coordVars, offRecVars>>

handleStopRecording ==
    /\ canStop(recordingState, isLoading)
    /\ isLoading' = TRUE
    /\ Invoke("stop_recording", NoConfig)
    /\ UNCHANGED <<recordingState, error, hasPermission, selectedDisplayId, micEnabled,
                   cameraEnabled, recordingTime, coordVars, offRecVars>>

stopRecordingReturns ==
    \E r \in responses :
        /\ r.cmd = "stop_recording"
        /\ responses' = responses \ {r}
        /\ recordingState' = recordingStateAfter(r.cmd, recordingState, r.ok)
        /\ recordingTime' = IF r.ok THEN 0 ELSE recordingTime
        /\ error' = IF r.ok THEN error ELSE <<r.err>>
        /\ isLoading' = FALSE
        /\ UNCHANGED <<hasPermission, selectedDisplayId, micEnabled, cameraEnabled,
                       invoked, requests, coordVars, offRecVars>>

handlePauseRecording ==
    /\ canPause(recordingState)
    /\ Invoke("pause_recording", NoConfig)
    /\ UNCHANGED <<viewVars, coordVars, offRecVars>>

pauseRecordingReturns ==
    \E r \in responses :
        /\ r.cmd = "pause_recording"
        /\ responses' = responses \ {r}
        /\ recordingState' = recordingStateAfter(r.cmd, recordingState, r.ok)
        /\ error' = IF r.ok THEN error ELSE <<r.err>>
        /\ UNCHANGED <<isLoading, hasPermission, selectedDisplayId, micEnabled,
                       cameraEnabled, recordingTime, invoked, requests, coordVars, offRecVars>>

handleResumeRecording ==
    /\ canResume(recordingState)
    /\ Invoke("resume_recording", NoConfig)
    /\ UNCHANGED <<viewVars, coordVars, offRecVars>>

resumeRecordingReturns ==
    \E r \in responses :
        /\ r.cmd = "resume_recording"
        /\ responses' = responses \ {r}
        /\ recordingState' = recordingStateAfter(r.cmd, recordingState, r.ok)
        /\ error' = IF r.ok THEN error ELSE <<r.err>>
        /\ UNCHANGED <<isLoading, hasPermission, selectedDisplayId, micEnabled,
                       cameraEnabled, recordingTime, invoked, requests, coordVars, offRecVars>>

\* the interval of the duration timer, running while recordingState is "recording"
timerTick ==
    /\ recordingState = "recording"
    /\ recordingTime' = 1
    /\ UNCHANGED <<recordingState, isLoading, error, hasPermission, selectedDisplayId,
                   micEnabled, cameraEnabled, ipcVars, coordVars, offRecVars>>

\* the microphone and camera toggles, enabled while idle
toggleMic ==
    /\ recordingState = "idle"
    /\ micEnabled' = ~micEnabled
    /\ UNCHANGED <<recordingState, isLoading, error, hasPermission, selectedDisplayId,
                   cameraEnabled, recordingTime, ipcVars, coordVars, offRecVars>>

toggleCamera ==
    /\ recordingState = "idle"
    /\ cameraEnabled' = ~cameraEnabled
    /\ UNCHANGED <<recordingState, isLoading, error, hasPermission, selectedDisplayId,
                   micEnabled, recordingTime, ipcVars, coordVars, offRecVars>>

----------------------------------------------------------------------------
(* Recording Coordinator and capture channels: the backend behind the        *)
(* start_recording, pause_recording, resume_recording and stop_recording     *)
(* commands.  It executes one call at a time, in the order of arrival.       *)

ChannelOrder == <<"screen", "microphone", "webcam", "input">>

Channels == {ChannelOrder[i] : i \in 1..Len(ChannelOrder)}

\* channels that report pause support
PauseSupport == {"screen", "microphone", "input"}

StartFailureCauses == {"permission", "device"}

ConfiguredChannels(cfg) ==
    <<"screen">>
    \o (IF cfg.captureMicrophone THEN <<"microphone">> ELSE <<>>)
    \o (IF cfg.captureWebcam THEN <<"webcam">> ELSE <<>>)
    \o (IF cfg.trackInput THEN <<"input">> ELSE <<>>)

\* the result of call id travels back to the awaiting handler
Respond(id, cmd, ok, err, descriptor) ==
    responses' = responses \cup
        {[id |-> id, cmd |-> cmd, ok |-> ok, err |-> err, bundle |-> descriptor]}

\* the session has reached Stopped: a stop has completed and no start came after
SessionStopped == session = "Idle" /\ bundle # <<>>

\* the calls the coordinator acts on in the given state
Accepted(cmd) ==
    \/ cmd = "start_recording" /\ session = "Idle"
    \/ cmd = "pause_recording" /\ session = "Active"
    \/ cmd = "resume_recording" /\ session = "Paused"
    \/ cmd = "stop_recording" /\ (session \in {"Active", "Paused"} \/ SessionStopped)

\* the next call is taken up
Take(cmd) ==
    /\ op = <<>>
    /\ requests # <<>>
    /\ Head(requests).cmd = cmd
    /\ Accepted(cmd)
    /\ requests' = Tail(requests)
    /\ UNCHANGED <<offRecVars, viewVars, invoked>>

\* startRecording: a session is created with new channel instances
coordStartRecording ==
    /\ Take("start_recording")
    /\ session' = "Starting"
    /\ sessionChannels' = ConfiguredChannels(Head(requests).config)
    /\ chan' = [c \in Channels |-> "Uninitialized"]
    /\ stops' = [c \in Channels |-> 0]
    /\ files' = {}
    /\ bundle' = <<>>
    /\ op' = <<[cmd |-> "start_recording", id |-> Head(requests).id, k |-> 1]>>
    /\ UNCHANGED <<responses, startFailure>>

Starting(k) ==
    /\ op # <<>>
    /\ op[1].cmd = "start_recording"
    /\ op[1].k = k
    /\ UNCHANGED <<offRecVars, viewVars, invoked, requests, sessionChannels, bundle>>

\* initialize and start of the next channel succeed
coordStartChannel ==
    \E k \in 1..Len(sessionChannels) :
        /\ Starting(k)
        /\ chan' = [chan EXCEPT ![sessionChannels[k]] = "Active"]
        /\ files' = files \cup {sessionChannels[k]}
        /\ op' = <<[op[1] EXCEPT !.k = k + 1]>>
        /\ UNCHANGED <<responses, session, stops, startFailure>>

\* channel states after the start of channel k failed: the started ones are stopped
rolledBack(cs0, k) ==
    [c \in Channels |->
        IF c = cs0[k] THEN "Failed"
        ELSE IF \E j \in 1..(k - 1) : cs0[j] = c THEN "Stopped" ELSE chan[c]]

\* the start of the next channel fails: rollback and the aggregate error
coordStartChannelFails ==
    \E k \in 1..Len(sessionChannels), cause \in StartFailureCauses :
        /\ Starting(k)
        /\ chan' = rolledBack(sessionChannels, k)
        /\ stops' = [c \in Channels |->
                        IF \E j \in 1..(k - 1) : sessionChannels[j] = c
                        THEN stops[c] + 1 ELSE stops[c]]
        /\ files' = {}
        /\ session' = "Failed"
        /\ startFailure' = <<k>>
        /\ op' = <<>>
        /\ Respond(op[1].id, op[1].cmd, FALSE,
                   [channel |-> sessionChannels[k], cause |-> cause], <<>>)

coordStartDone ==
    /\ Starting(Len(sessionChannels) + 1)
    /\ session' = "Active"
    /\ op' = <<>>
    /\ Respond(op[1].id, op[1].cmd, TRUE, NoError, <<>>)
    /\ UNCHANGED <<chan, stops, files, startFailure>>

\* pauseRecording: forwarded to every channel that reports pause support
coordPauseRecording ==
    /\ Take("pause_recording")
    /\ session' = "Paused"
    /\ chan' = [c \in Channels |->
                   IF c \in PauseSupport /\ chan[c] = "Active" THEN "Paused" ELSE chan[c]]
    /\ Respond(Head(requests).id, "pause_recording", TRUE, NoError, <<>>)
    /\ UNCHANGED <<sessionChannels, stops, files, bundle, op, startFailure>>

coordResumeRecording ==
    /\ Take("resume_recording")
    /\ session' = "Active"
    /\ chan' = [c \in Channels |-> IF chan[c] = "Paused" THEN "Active" ELSE chan[c]]
    /\ Respond(Head(requests).id, "resume_recording", TRUE, NoError, <<>>)
    /\ UNCHANGED <<sessionChannels, stops, files, bundle, op, startFailure>>

\* faulty variant of stopAgain: a stop after Stopped stops the channels again
stopAgainStopsChannels(n) == [c \in Channels |-> n[c] + 1]

\* stop() calls after a stopRecording on a session that has reached Stopped
stopAgain(n) == n

\* stopRecording on a running session
coordStopRecording ==
    /\ Take("stop_recording")
    /\ ~SessionStopped
    /\ session' = "Stopping"
    /\ op' = <<[cmd |-> "stop_recording", id |-> Head(requests).id, k |-> 1]>>
    /\ UNCHANGED <<responses, sessionChannels, chan, stops, files, bundle, startFailure>>

\* stop() of the next channel: its thread is joined and its buffers are flushed
coordStopChannel ==
    \E k \in 1..Len(sessionChannels) :
        /\ op # <<>>
        /\ op[1].cmd = "stop_recording"
        /\ op[1].k = k
        /\ chan' = [chan EXCEPT ![sessionChannels[k]] = "Stopped"]
        /\ stops' = [stops EXCEPT ![sessionChannels[k]] = @ + 1]
        /\ op' = <<[op[1] EXCEPT !.k = k + 1]>>
        /\ UNCHANGED <<offRecVars, viewVars, ipcVars, session, sessionChannels, files, bundle,
                       startFailure>>

\* the manifests are collected into the session bundle descriptor
coordStopDone ==
    /\ op # <<>>
    /\ op[1].cmd = "stop_recording"
    /\ op[1].k = Len(sessionChannels) + 1
    /\ session' = "Idle"
    /\ bundle' = <<[channels |-> sessionChannels, files |-> files]>>
    /\ op' = <<>>
    /\ Respond(op[1].id, op[1].cmd, TRUE, NoError, bundle')
    /\ UNCHANGED <<offRecVars, viewVars, invoked, requests, sessionChannels, chan, stops, files,
                   startFailure>>

\* stopRecording once the session has reached Stopped
coordStopRecordingAgain ==
    /\ Take("stop_recording")
    /\ SessionStopped
    /\ stops' = stopAgain(stops)
    /\ Respond(Head(requests).id, "stop_recording", TRUE, NoError, bundle)
    /\ UNCHANGED <<session, sessionChannels, chan, files, bundle, op, startFailure>>

\* a call the state machine has no transition for is refused
coordReject ==
    /\ op = <<>>
    /\ requests # <<>>
    /\ ~Accepted(Head(requests).cmd)
    /\ requests' = Tail(requests)
    /\ Respond(Head(requests).id, Head(requests).cmd, FALSE,
               [channel |-> "none", cause |-> "state"], <<>>)
    /\ UNCHANGED <<viewVars, invoked, coordVars, offRecVars>>

\* a channel crashes while the session is Active: session-fatal
channelCrash ==
    /\ op = <<>>
    /\ session = "Active"
    /\ \E k \in 1..Len(sessionChannels) :
           chan' = [chan EXCEPT ![sessionChannels[k]] = "Failed"]
    /\ session' = "Failed"
    /\ UNCHANGED <<offRecVars, viewVars, ipcVars, sessionChannels, stops, files, bundle, op,
                   startFailure>>

\* the view as mounted and the backend with no session, nothing in flight
IdleRecording ==
    /\ recordingState = "idle"
    /\ isLoading = FALSE
    /\ error = <<>>
    /\ hasPermission = <<>>
    /\ selectedDisplayId = <<>>
    /\ micEnabled = TRUE
    /\ cameraEnabled = TRUE
    /\ recordingTime = 0
    /\ invoked = <<>>
    /\ requests = <<>>
    /\ responses = {}
    /\ session = "Idle"
    /\ sessionChannels = <<>>
    /\ chan = [c \in Channels |-> "Uninitialized"]
    /\ stops = [c \in Channels |-> 0]
    /\ files = {}
    /\ bundle = <<>>
    /\ op = <<>>
    /\ startFailure = <<>>


----------------------------------------------------------------------------
(* Pointer/click capture channel: InputTrackingChannel and the polling loop  *)
(* of start_input_tracking.  Times are whole ticks of the monotonic clock.   *)

CursorIds == {"arrow", "hand"}

\* what capturing a cursor image yields: "" when the capture fails
CaptureOutcomes == {"", "v1.png", "v2.png"}

\* faulty variant of lookupOrRegister: an id whose capture failed is captured again
lookupOrRegisterRetry(catalog, id, captured) ==
    IF catalog[id] # <<>> /\ catalog[id][1].imagePath # ""
    THEN catalog
    ELSE [catalog EXCEPT ![id] = <<[id |-> id, imagePath |-> captured]>>]

\* the catalog after lookupOrRegister(id, captureFn), captureFn yielding `captured`
lookupOrRegister(catalog, id, captured) ==
    IF catalog[id] # <<>>
    THEN catalog
    ELSE [catalog EXCEPT ![id] = <<[id |-> id, imagePath |-> captured]>>]

\* the captures made so far, after that lookupOrRegister
capturesAfter(catalog, n, id) ==
    IF lookupOrRegister(catalog, id, "v1.png") = catalog
       /\ lookupOrRegister(catalog, id, "v2.png") = catalog
    THEN n
    ELSE [n EXCEPT ![id] = @ + 1]

\* faulty variant of continueLoop: the loop does not test the flag
continueLoopAlways(flag) == TRUE

\* while is_recording.load(Ordering::Relaxed)
continueLoop(flag) == flag

\* faulty variant of processTimeMs: start.elapsed() in place of start_time.elapsed()
processTimeMsOfTick(clock, origin, tick) == clock - tick

\* process_time_ms: start_time.elapsed()
processTimeMs(clock, origin, tick) == clock - origin

\* start(): the polling thread is spawned and the listener registered
channelStart ==
    /\ channelPc = "initialized"
    /\ channelPc' = "active"
    /\ isRecording' = TRUE
    /\ startTime' = now
    /\ threadPc' = "check"
    /\ UNCHANGED <<pollingPaused, tickStart, now, bufferVars, flushed, offPtrVars>>

\* pause(): the polling thread is suspended, the listener stays registered
channelPause ==
    /\ channelPc = "active"
    /\ ~pollingPaused
    /\ pollingPaused' = TRUE
    /\ UNCHANGED <<isRecording, threadVars, now, startTime, bufferVars, channelPc,
                   flushed, offPtrVars>>

channelResume ==
    /\ channelPc = "active"
    /\ pollingPaused
    /\ pollingPaused' = FALSE
    /\ UNCHANGED <<isRecording, threadVars, now, startTime, bufferVars, channelPc,
                   flushed, offPtrVars>>

\* stop(), first part: the polling thread is signalled to exit
channelStopSignal ==
    /\ channelPc = "active"
    /\ channelPc' = "joining"
    /\ isRecording' = FALSE
    /\ UNCHANGED <<pollingPaused, threadVars, now, startTime, bufferVars, flushed,
                   offPtrVars>>

\* stop(), second part: the thread is joined and the three buffers are flushed
channelStopJoin ==
    /\ channelPc = "joining"
    /\ threadPc = "done"
    /\ channelPc' = "stopped"
    /\ flushed' = <<[moves |-> mouseMoves, clicks |-> mouseClicks, catalog |-> cursors]>>
    /\ UNCHANGED <<isRecording, pollingPaused, threadVars, now, startTime, bufferVars,
                   offPtrVars>>

\* the loop condition; a suspended thread and a full buffer take no sample
loopCheck ==
    /\ threadPc = "check"
    /\ threadPc' = IF ~continueLoop(isRecording) THEN "done"
                   ELSE IF pollingPaused \/ Len(mouseMoves) >= MaxSamples THEN "sleep"
                   ELSE "tick"
    /\ UNCHANGED <<isRecording, pollingPaused, tickStart, now, startTime, bufferVars,
                   channelPc, flushed, offPtrVars>>

\* let start = Instant::now()
loopTickStart ==
    /\ threadPc = "tick"
    /\ tickStart' = now
    /\ threadPc' = "sample"
    /\ UNCHANGED <<isRecording, pollingPaused, now, startTime, bufferVars, channelPc,
                   flushed, offPtrVars>>

\* the position and the cursor are read, the event is built and pushed
loopSample ==
    /\ threadPc = "sample"
    /\ \E shape \in CursorIds, captured \in CaptureOutcomes :
           /\ cursors' = lookupOrRegister(cursors, shape, captured)
           /\ captures' = capturesAfter(cursors, captures, shape)
           /\ mouseMoves' = Append(mouseMoves,
                                   [cursorId |-> shape,
                                    processTimeMs |-> processTimeMs(now, startTime, tickStart)])
    /\ appendedAfterStop' = IF isRecording THEN appendedAfterStop ELSE appendedAfterStop + 1
    /\ threadPc' = "sleep"
    /\ UNCHANGED <<isRecording, pollingPaused, tickStart, now, startTime, mouseClicks,
                   channelPc, flushed, offPtrVars>>

\* std::thread::sleep(poll_interval - elapsed)
loopSleep ==
    /\ threadPc = "sleep"
    /\ threadPc' = "check"
    /\ UNCHANGED <<isRecording, pollingPaused, tickStart, now, startTime, bufferVars,
                   channelPc, flushed, offPtrVars>>

\* the event-driven listener appends a ClickEvent per button transition
clickListener ==
    /\ channelPc \in {"active", "joining"}
    /\ Len(mouseClicks) < MaxClicks
    /\ mouseClicks' = Append(mouseClicks,
                             [processTimeMs |-> processTimeMs(now, startTime, now)])
    /\ UNCHANGED <<isRecording, pollingPaused, threadVars, now, startTime, mouseMoves,
                   cursors, captures, appendedAfterStop, channelPc, flushed, offPtrVars>>

\* the monotonic clock advances
clockAdvance ==
    /\ now < MaxTime
    /\ now' = now + 1
    /\ UNCHANGED <<isRecording, pollingPaused, threadVars, startTime, bufferVars,
                   channelPc, flushed, offPtrVars>>

PollingThread == loopCheck \/ loopTickStart \/ loopSample \/ loopSleep

\* an initialized channel: empty buffers, no thread
IdlePointer ==
    /\ isRecording = FALSE
    /\ pollingPaused = FALSE
    /\ threadPc = "none"
    /\ tickStart = 0
    /\ now = 0
    /\ startTime = 0
    /\ mouseMoves = <<>>
    /\ mouseClicks = <<>>
    /\ cursors = [id \in CursorIds |-> <<>>]
    /\ captures = [id \in CursorIds |-> 0]
    /\ channelPc = "initialized"
    /\ flushed = <<>>
    /\ appendedAfterStop = 0

----------------------------------------------------------------------------
(* CursorOverlay (CursorOverlay.tsx) and the preview that mounts it.  A render *)
(* is a sequence of elements; the cursor glyph is an "img" (catalog image) or  *)
(* an "arrow" (the generic SVG arrow); "dot", "line" and "label" are the debug *)
(* elements.  A property lookup that finds nothing yields <<>> (undefined).    *)

\* the ids a SmoothedPosition may carry: those of the catalog and one more
OverlayCursorIds == CursorIds \cup {"ibeam"}

\* obj[key] of a JavaScript record
Lookup(obj, key) == IF key \in DOMAIN obj THEN <<obj[key]>> ELSE <<>>

RMin(a, b) == IF RLt(b, a) THEN b ELSE a

calculateScale(videoWidth, videoHeight, containerWidth, containerHeight) ==
    IF videoWidth = 0 \/ videoHeight = 0
    THEN [scale |-> R(1), offsetX |-> R(0), offsetY |-> R(0)]
    ELSE LET scaleX == Rat(containerWidth, videoWidth)
             scaleY == Rat(containerHeight, videoHeight)
             scale == RMin(scaleX, scaleY)
             scaledWidth == RMul(R(videoWidth), scale)
             scaledHeight == RMul(R(videoHeight), scale)
         IN  [scale |-> scale,
              offsetX |-> RDiv(RSub(R(containerWidth), scaledWidth), R(2)),
              offsetY |-> RDiv(RSub(R(containerHeight), scaledHeight), R(2))]

\* the asset-protocol URL of a file path
convertFileSrc(path) == "asset://localhost/" \o path

\* every descriptor gets a URL, whatever its imagePath
cursorImageUrlsUnfiltered(catalog) ==
    [id \in DOMAIN catalog |-> convertFileSrc(catalog[id].imagePath)]

cursorImageUrls(catalog) ==
    [id \in {i \in DOMAIN catalog : catalog[i].imagePath # ""} |->
        convertFileSrc(catalog[id].imagePath)]

\* !!cursorImageUrl
hasValidCursorImage(cursorImageUrl) == cursorImageUrl # <<>> /\ cursorImageUrl[1] # ""

\* the smoothed cursor: the catalog image with its hotspot on (x, y), or the arrow at (x, y)
cursorGlyph(cursorImageUrl, cursorInfo, x, y, cursorScale) ==
    LET hotspotOffsetX == IF cursorInfo # <<>>
                          THEN RMul(R(cursorInfo[1].hotspotX), cursorScale) ELSE R(0)
        hotspotOffsetY == IF cursorInfo # <<>>
                          THEN RMul(R(cursorInfo[1].hotspotY), cursorScale) ELSE R(0)
    IN  IF hasValidCursorImage(cursorImageUrl)
        THEN [kind |-> "img", src |-> cursorImageUrl[1],
              left |-> RSub(x, hotspotOffsetX), top |-> RSub(y, hotspotOffsetY),
              size |-> cursorScale]
        ELSE [kind |-> "arrow", src |-> "",
              left |-> x, top |-> y, size |-> RMul(R(24), cursorScale)]

debugElements(position, rawX, rawY, x, y) ==
    << [kind |-> "dot", src |-> "",
        left |-> RSub(rawX, R(6)), top |-> RSub(rawY, R(6)), size |-> R(12)],
       [kind |-> "line", src |-> "", left |-> rawX, top |-> rawY, size |-> R(1),
        x2 |-> x, y2 |-> y],
       [kind |-> "label", src |-> "",
        left |-> RAdd(x, R(20)), top |-> RSub(y, R(10)), size |-> R(1)] >>

CursorOverlay(props) ==
    IF props.position = <<>> THEN <<>>
    ELSE LET position == props.position[1]
             cursorInfo == Lookup(props.cursors, position.cursorId)
             cursorImageUrl == Lookup(cursorImageUrls(props.cursors), position.cursorId)
             s == calculateScale(props.videoWidth, props.videoHeight,
                                 props.containerWidth, props.containerHeight)
             smoothedX == RAdd(RMul(position.x, s.scale), s.offsetX)
             smoothedY == RAdd(RMul(position.y, s.scale), s.offsetY)
             rawX == RAdd(RMul(R(position.rawX), s.scale), s.offsetX)
             rawY == RAdd(RMul(R(position.rawY), s.scale), s.offsetY)
             cursorScale == RMul(s.scale, props.cursorSize)
         IN  <<cursorGlyph(cursorImageUrl, cursorInfo, smoothedX, smoothedY, cursorScale)>>
             \o (IF props.showDebug
                 THEN debugElements(position, rawX, rawY, smoothedX, smoothedY)
                 ELSE <<>>)

\* the props the preview passes to the overlay it mounts
overlayProps(loaded, position, size, multiplier, debug) ==
    [position |-> position,
     cursors |-> loaded.cursors,
     cursorSize |-> multiplier,
     videoWidth |-> IF loaded.videoMetadata.width = 0 THEN 1920
                    ELSE loaded.videoMetadata.width,
     videoHeight |-> IF loaded.videoMetadata.height = 0 THEN 1080
                     ELSE loaded.videoMetadata.height,
     containerWidth |-> size.width,
     containerHeight |-> size.height,
     showDebug |-> debug]

\* what the preview shows of the overlay: nothing without a bundle
previewOverlay(loaded, position, size, multiplier, debug) ==
    IF loaded = <<>> THEN <<>>
    ELSE CursorOverlay(overlayProps(loaded[1], position, size, multiplier, debug))

CursorInfos ==
    [id : CursorIds, imagePath : {"", "cursors/arrow.png"},
     hotspotX : {4}, hotspotY : {2}, width : {32}, height : {32}]

\* catalogs: a descriptor for some of the ids, each under its own id
Catalogs ==
    UNION {{c \in [D -> CursorInfos] : \A id \in D : c[id].id = id} : D \in SUBSET CursorIds}

Bundles ==
    [cursors : Catalogs,
     videoMetadata : {[width |-> 0, height |-> 0], [width |-> 100, height |-> 50]}]

SmoothedPositions ==
    [x : {R(0), Rat(15, 2)}, y : {R(10)}, rawX : {10}, rawY : {10},
     cursorId : OverlayCursorIds]

PreviewSizes ==
    {[width |-> 100, height |-> 100], [width |-> 200, height |-> 50],
     [width |-> 50, height |-> 50]}

\* loadRecording: the bundle arrives
setRecordingBundle ==
    /\ \E b \in Bundles :
        /\ recordingBundle' = <<b>>
        /\ rendered' = previewOverlay(<<b>>, cursorPosition, previewSize, cursorSize,
                                      showDebug)
    /\ UNCHANGED <<cursorPosition, previewSize, cursorSize, showDebug, offOvVars>>

\* the playback loop publishes the position of the current frame
setCursorPosition ==
    /\ recordingBundle # <<>>
    /\ \E p \in SmoothedPositions :
        /\ cursorPosition' = <<p>>
        /\ rendered' = previewOverlay(recordingBundle, <<p>>, previewSize, cursorSize,
                                      showDebug)
    /\ UNCHANGED <<recordingBundle, previewSize, cursorSize, showDebug, offOvVars>>

\* the container was resized
setPreviewSize ==
    /\ \E size \in PreviewSizes :
        /\ previewSize' = size
        /\ rendered' = previewOverlay(recordingBundle, cursorPosition, size, cursorSize,
                                      showDebug)
    /\ UNCHANGED <<recordingBundle, cursorPosition, cursorSize, showDebug, offOvVars>>

\* the preview before a recording is loaded
IdleOverlay ==
    /\ recordingBundle = <<>>
    /\ cursorPosition = <<>>
    /\ previewSize = [width |-> 800, height |-> 450]
    /\ cursorSize = R(1)
    /\ showDebug = FALSE
    /\ rendered = <<>>

----------------------------------------------------------------------------
(* EditorView: the playback loop, the seek and the spring sliders             *)

MaxFrames == 4

\* findCursorAtTime(moves, timeMs): the last sample at or before timeMs, <<>> for none
findCursorAtTime(ms, timeMs) ==
    IF \E i \in 1..Len(ms) : ms[i].processTimeMs <= timeMs
    THEN <<ms[CHOOSE i \in 1..Len(ms) :
                  /\ ms[i].processTimeMs <= timeMs
                  /\ \A j \in (i + 1)..Len(ms) : ms[j].processTimeMs > timeMs]>>
    ELSE <<>>

\* faulty variant of cancelAnimationFrame: the callback stays requested
cancelAnimationFrameIgnored(queue, id) == queue

cancelAnimationFrame(queue, id) == queue \ {id}

\* faulty variant of deltaMsOf: the gap is not capped
deltaMsUncapped(timestamp, last) ==
    IF last = 0 THEN 0 ELSE timestamp - last

\* deltaMs of animate: 0 on the frame that finds no last timestamp, capped at 100
deltaMsOf(timestamp, last) ==
    IF last = 0 THEN 0
    ELSE IF timestamp - last < 100 THEN timestamp - last ELSE 100

\* the cleanup returned by the animation effect
animationCleanup(ref, queue) ==
    IF ref # <<>> THEN cancelAnimationFrame(queue, ref[1]) ELSE queue

\* the body of the animation effect, run with the refs as the cleanup left them
animationEffect(playing, loaded, ref, queue, last, id) ==
    IF ~playing \/ ~loaded
    THEN [animationRef |-> <<>>,
          frameRequests |-> IF ref # <<>> THEN cancelAnimationFrame(queue, ref[1])
                            ELSE queue,
          lastAnimationTimeRef |-> 0,
          nextFrameId |-> id]
    ELSE [animationRef |-> <<id>>,
          frameRequests |-> queue \cup {id},
          lastAnimationTimeRef |-> last,
          nextFrameId |-> id + 1]

\* a dependency of the animation effect changed: cleanup, then the body
rerunAnimationEffect(playing, loaded) ==
    \E e \in {animationEffect(playing, loaded, animationRef,
                              animationCleanup(animationRef, frameRequests),
                              lastAnimationTimeRef, nextFrameId)} :
        /\ animationRef' = e.animationRef
        /\ frameRequests' = e.frameRequests
        /\ lastAnimationTimeRef' = e.lastAnimationTimeRef
        /\ nextFrameId' = e.nextFrameId

\* gaps between the timestamps of two animation frames, in ms
FrameGaps == {50, 250}

\* what animate does after it has computed its position: request the next frame
requestNextFrame(id) ==
    /\ frameRequests' = (frameRequests \ {id}) \cup {nextFrameId}
    /\ animationRef' = <<nextFrameId>>
    /\ nextFrameId' = nextFrameId + 1
    /\ framesRun' = framesRun + 1

\* the smoothing branch of animate, on the sample found for this frame
animateSample(raw, deltaMs) ==
    IF cs # <<>>
    THEN /\ CsUpdate(raw, Rat(deltaMs, 1000))
         /\ cursorPosition' = <<csOut'[Len(csOut')]>>
    ELSE /\ cursorPosition' = <<[x |-> R(raw.x), y |-> R(raw.y), rawX |-> raw.x,
                                 rawY |-> raw.y, cursorId |-> raw.cursorId]>>
         /\ UNCHANGED <<cs, csOut, csLog, csCall>>

EditorMoves ==
    {<<[x |-> 0, y |-> 0, cursorId |-> "arrow", processTimeMs |-> 0],
       [x |-> 3, y |-> 4, cursorId |-> "hand", processTimeMs |-> 50],
       [x |-> 600, y |-> 0, cursorId |-> "arrow", processTimeMs |-> 100]>>,
     <<[x |-> 3, y |-> 4, cursorId |-> "hand", processTimeMs |-> 50],
       [x |-> 0, y |-> 0, cursorId |-> "arrow", processTimeMs |-> 100]>>}

EditorBundles ==
    [mouseMoves : EditorMoves, videoMetadata : {[durationMs |-> 100]}]

VideoTimes == {0, 50, 100}

\* the mount effect's load_recording_bundle has returned
loadRecording ==
    /\ recordingBundle = <<>>
    /\ \E loaded \in EditorBundles :
           /\ recordingBundle' = <<loaded>>
           /\ duration' = loaded.videoMetadata.durationMs
    /\ rerunAnimationEffect(isPlaying, TRUE)
    /\ UNCHANGED <<isPlaying, currentTime, springConfig, videoTime, frameClock, framesRun,
                   cursorPosition, csVars, offEdVars>>

\* the video element fires play
onPlay ==
    /\ recordingBundle # <<>>
    /\ ~isPlaying
    /\ nextFrameId <= MaxFrames
    /\ isPlaying' = TRUE
    /\ framesRun' = 0
    /\ rerunAnimationEffect(TRUE, recordingBundle # <<>>)
    /\ UNCHANGED <<currentTime, duration, springConfig, videoTime, frameClock,
                   recordingBundle, cursorPosition, csVars, offEdVars>>

\* the video element fires pause or ended
onPause ==
    /\ isPlaying
    /\ isPlaying' = FALSE
    /\ rerunAnimationEffect(FALSE, recordingBundle # <<>>)
    /\ UNCHANGED <<currentTime, duration, springConfig, videoTime, frameClock, framesRun,
                   recordingBundle, cursorPosition, csVars, offEdVars>>

\* the video has played on and fires timeupdate
onTimeUpdate ==
    /\ isPlaying
    /\ \E t \in VideoTimes :
           /\ t > videoTime
           /\ t <= duration
           /\ videoTime' = t
           /\ currentTime' = t
    /\ UNCHANGED <<isPlaying, duration, springConfig, animationRef, lastAnimationTimeRef,
                   frameRequests, nextFrameId, frameClock, framesRun, recordingBundle,
                   cursorPosition, csVars, offEdVars>>

\* the browser runs the callback requested by the animation loop
animate ==
    /\ nextFrameId <= MaxFrames
    /\ \E id \in frameRequests : \E gap \in FrameGaps :
           /\ frameClock' = frameClock + gap
           /\ lastAnimationTimeRef' = frameClock'
           /\ \E found \in {findCursorAtTime(recordingBundle[1].mouseMoves, videoTime)} :
                  IF found # <<>>
                  THEN animateSample(found[1], deltaMsOf(frameClock', lastAnimationTimeRef))
                  ELSE UNCHANGED <<cursorPosition, cs, csOut, csLog, csCall>>
           /\ requestNextFrame(id)
    /\ UNCHANGED <<isPlaying, currentTime, duration, springConfig, videoTime,
                   recordingBundle, offEdVars>>

\* faulty variant of smootherAfterSeek: the seek leaves the smoother as it is
smootherAfterSeekKept(self, found) == self

\* the smoother after a seek that found the sample `found`
smootherAfterSeek(self, found) == reset(self, found.x, found.y)

handleTimelineClick ==
    /\ duration # 0
    /\ \E newTime \in VideoTimes :
           /\ newTime <= duration
           /\ videoTime' = newTime
           /\ currentTime' = newTime
           /\ \E found \in {IF recordingBundle # <<>>
                            THEN findCursorAtTime(recordingBundle[1].mouseMoves, newTime)
                            ELSE <<>>} :
                  IF cs # <<>> /\ found # <<>>
                  THEN /\ cs' = <<smootherAfterSeek(cs[1], found[1])>>
                       /\ csCall' = <<[op |-> "reset", x |-> found[1].x, y |-> found[1].y,
                                       arg |-> newTime]>>
                       /\ UNCHANGED <<csOut, csLog>>
                  ELSE UNCHANGED <<cs, csOut, csLog, csCall>>
    /\ UNCHANGED <<isPlaying, duration, springConfig, animationRef, lastAnimationTimeRef,
                   frameRequests, nextFrameId, frameClock, framesRun, recordingBundle,
                   cursorPosition, offEdVars>>

----------------------------------------------------------------------------
(* EditorView with the demo loop and the spring sliders (part_003)            *)

\* the smoother effect: a new smoother for the springConfig it is run with
smootherEffect(enabled, cfg) ==
    IF enabled THEN <<NewCursorSmoother(cfg, DEFAULT_TELEPORT_THRESHOLD)>> ELSE <<>>

\* { ...prev, ...updates }
mergeConfig(prev, updates) ==
    [k \in DOMAIN prev |-> IF k \in DOMAIN updates THEN updates[k] ELSE prev[k]]

\* values the three sliders can be moved to
ConfigUpdates ==
    {[stiffness |-> R(400)], [damping |-> R(40)], [mass |-> R(2)]}

\* raw positions of the demo movement: points of the circle around (960, 540)
DemoSamples == {[x |-> 1260, y |-> 540], [x |-> 960, y |-> 840]}

\* a slider moves: the updater calls updateConfig on the current smoother and returns
\* the merged config; springConfig has changed, so the smoother effect runs again
\* and smootherRef holds a new smoother
updateSpringConfig ==
    /\ \E updates \in ConfigUpdates :
           \E newConfig \in {mergeConfig(springConfig, updates)} :
               \E updated \in {IF cs # <<>> THEN <<updateConfig(cs[1], newConfig)>>
                               ELSE <<>>} :
                   /\ springConfig' = newConfig
                   /\ cs' = smootherEffect(TRUE, newConfig)
                   /\ csCall' = <<[op |-> "constructor", x |-> 0, y |-> 0,
                                   arg |-> newConfig]>>
    /\ UNCHANGED <<isPlaying, currentTime, duration, videoTime, animationRef,
                   lastAnimationTimeRef, frameRequests, nextFrameId, frameClock, framesRun,
                   recordingBundle, cursorPosition, csOut, csLog, offEdVars>>

\* the play button
togglePlay ==
    /\ isPlaying \/ nextFrameId <= MaxFrames
    /\ isPlaying' = ~isPlaying
    /\ framesRun' = IF isPlaying THEN framesRun ELSE 0
    /\ rerunAnimationEffect(~isPlaying, TRUE)
    /\ UNCHANGED <<currentTime, duration, springConfig, videoTime, frameClock,
                   recordingBundle, cursorPosition, csVars, offEdVars>>

\* the demo loop's frame callback; the raw position is one of the demo movement
animateDemo ==
    /\ nextFrameId <= MaxFrames
    /\ \E id \in frameRequests : \E gap \in FrameGaps : \E at \in DemoSamples :
           /\ frameClock' = frameClock + gap
           /\ lastAnimationTimeRef' = frameClock'
           /\ \E deltaMs \in {deltaMsOf(frameClock', lastAnimationTimeRef)} :
                  /\ currentTime' = IF currentTime + deltaMs > duration THEN 0
                                    ELSE currentTime + deltaMs
                  /\ \E raw \in {[x |-> at.x, y |-> at.y, cursorId |-> "default",
                                  processTimeMs |-> currentTime']} :
                         IF currentTime + deltaMs > duration /\ cs # <<>>
                         THEN \E before \in {reset(cs[1], 960, 540)} :
                              \E after \in {update(before, raw, Rat(deltaMs, 1000))} :
                                  /\ cs' = <<after>>
                                  /\ csOut' = Append(csOut, updateResult(after, raw))
                                  /\ csLog' = <<[prev |-> before.lastRawPosition,
                                                 threshold |-> before.teleportThreshold,
                                                 config |-> before.config,
                                                 x |-> raw.x, y |-> raw.y,
                                                 cursorId |-> raw.cursorId,
                                                 dt |-> Rat(deltaMs, 1000),
                                                 after |-> after]>>
                                  /\ csCall' = <<[op |-> "update", x |-> raw.x,
                                                  y |-> raw.y,
                                                  arg |-> Rat(deltaMs, 1000)]>>
                                  /\ cursorPosition' = <<updateResult(after, raw)>>
                         ELSE animateSample(raw, deltaMs)
           /\ requestNextFrame(id)
    /\ UNCHANGED <<isPlaying, duration, springConfig, videoTime, recordingBundle,
                   offEdVars>>

\* EditorView as mounted, or not mounted at all
IdleEditor ==
    /\ isPlaying = FALSE
    /\ currentTime = 0
    /\ duration = 0
    /\ springConfig = DEFAULT_SPRING_CONFIG
    /\ videoTime = 0
    /\ animationRef = <<>>
    /\ lastAnimationTimeRef = 0
    /\ frameRequests = {}
    /\ nextFrameId = 1
    /\ frameClock = 0
    /\ framesRun = 0

IdleApp == IdleRecording /\ IdlePointer /\ IdleOverlay /\ IdleEditor

----------------------------------------------------------------------------
(* Specification Spec: calls of smoothMouseMoves on one input, and a          *)
(* CursorSmoother driven frame by frame with the same samples and a fixed dt  *)

\* the sample at or before frameTimeMs that comes last in the stream; the first
\* sample when none is at or before frameTimeMs
nearestPrecedingOrFirst(ms, frameTimeMs) ==
    LET at == {i \in 1..Len(ms) : RLe(R(ms[i].processTimeMs), frameTimeMs)}
    IN  IF at = {} THEN 1 ELSE CHOOSE i \in at : \A j \in at : j <= i

frameTimeMsOf(f, fps) == Rat(f * 1000, fps)

InitBatch ==
    /\ moves \in Streams
    /\ config \in BatchConfigs
    /\ outputFps \in Fps
    /\ outputs = <<>>
    /\ targets = <<>>
    /\ threw = FALSE

IdleBatch ==
    /\ moves = <<>>
    /\ config = DEFAULT_SPRING_CONFIG
    /\ outputFps = 30
    /\ outputs = <<>>
    /\ targets = <<>>
    /\ threw = FALSE

InitCs ==
    /\ cs = <<>>
    /\ csOut = <<>>
    /\ csLog = <<>>
    /\ csOps = 0
    /\ csCall = <<>>

IdleSpring ==
    /\ sp = createSpringState(R(0))
    /\ spTarget = R(0)
    /\ spConfig = DEFAULT_SPRING_CONFIG
    /\ spDt = R(0)
    /\ spStart = R(0)
    /\ spSteps = 0
    /\ spReturned = <<>>

\* a smoother with the same config is constructed once a batch result exists
ReplayNew ==
    /\ Len(outputs) >= 1
    /\ moves # <<>>
    /\ cs = <<>>
    /\ CsNew(config, DEFAULT_TELEPORT_THRESHOLD)
    /\ UNCHANGED <<batchVars, springVars, csOps, appVars>>

\* it is placed on the first sample with zero velocity
ReplayReset ==
    /\ cs # <<>>
    /\ cs[1].lastRawPosition = <<>>
    /\ CsReset(moves[1].x, moves[1].y)
    /\ UNCHANGED <<batchVars, springVars, csOps, appVars>>

\* it receives update(target_f, 1/outputFps) for the next frame f
ReplayUpdate ==
    /\ cs # <<>>
    /\ cs[1].lastRawPosition # <<>>
    /\ Len(csOut) < Len(outputs[1])
    /\ LET f == Len(csOut)
           raw == moves[nearestPrecedingOrFirst(moves, frameTimeMsOf(f, outputFps))]
       IN  CsUpdate(raw, Rat(1, outputFps))
    /\ UNCHANGED <<batchVars, springVars, csOps, appVars>>

Init == InitBatch /\ InitCs /\ IdleSpring /\ IdleApp

Next == Call \/ ReplayNew \/ ReplayReset \/ ReplayUpdate

Spec == Init /\ [][Next]_vars

----------------------------------------------------------------------------
(* Specification SpecRuns: smoothMouseMoves with the default config on dense  *)
(* streams: samples 10 ms apart at points up to 500 apart, and a last sample  *)
(* at 100 ms, so that a frame interval holds several samples.                 *)

RunPoints == {[x |-> 0, y |-> 0, cursorId |-> "arrow"],
              [x |-> 300, y |-> 400, cursorId |-> "hand"],
              [x |-> 600, y |-> 0, cursorId |-> "arrow"]}

RunLength == MaxMoves + 1

RunTimeOf(i) == IF i = RunLength THEN 100 ELSE 10 * (i - 1)

RunStreams ==
    {[i \in 1..RunLength |->
         [x |-> ps[i].x, y |-> ps[i].y, cursorId |-> ps[i].cursorId,
          processTimeMs |-> RunTimeOf(i)]] : ps \in [1..RunLength -> RunPoints]}

InitRuns ==
    /\ moves \in RunStreams
    /\ config = DEFAULT_SPRING_CONFIG
    /\ outputFps \in Fps
    /\ outputs = <<>>
    /\ targets = <<>>
    /\ threw = FALSE
    /\ InitCs
    /\ IdleSpring
    /\ IdleApp

SpecRuns == InitRuns /\ [][Next]_vars

----------------------------------------------------------------------------
(* Specification SpecEditor: EditorView playing a loaded recording            *)

\* after mount: the smoother effect has constructed the smoother
InitEditor ==
    /\ IdleBatch
    /\ IdleSpring
    /\ IdleApp
    /\ cs = <<NewCursorSmoother(springConfig, DEFAULT_TELEPORT_THRESHOLD)>>
    /\ csOut = <<>>
    /\ csLog = <<>>
    /\ csOps = 0
    /\ csCall = <<>>

NextEditor ==
    loadRecording \/ onPlay \/ onPause \/ onTimeUpdate \/ animate \/ handleTimelineClick

SpecEditor == InitEditor /\ [][NextEditor]_vars

----------------------------------------------------------------------------
(* Specification SpecDemoEditor: EditorView with the demo loop (part_003)     *)

InitDemoEditor ==
    /\ IdleBatch
    /\ IdleSpring
    /\ IdleRecording
    /\ IdlePointer
    /\ recordingBundle = <<>>
    /\ cursorPosition = <<>>
    /\ previewSize = [width |-> 800, height |-> 450]
    /\ cursorSize = Rat(3, 2)
    /\ showDebug = FALSE
    /\ rendered = <<>>
    /\ isPlaying = FALSE
    /\ currentTime = 0
    /\ duration = 10000
    /\ springConfig = DEFAULT_SPRING_CONFIG
    /\ videoTime = 0
    /\ animationRef = <<>>
    /\ lastAnimationTimeRef = 0
    /\ frameRequests = {}
    /\ nextFrameId = 1
    /\ frameClock = 0
    /\ framesRun = 0
    /\ cs = smootherEffect(TRUE, springConfig)
    /\ csOut = <<>>
    /\ csLog = <<>>
    /\ csOps = 0
    /\ csCall = <<>>

NextDemoEditor == togglePlay \/ animateDemo \/ updateSpringConfig

SpecDemoEditor == InitDemoEditor /\ [][NextDemoEditor]_vars

----------------------------------------------------------------------------
(* Specification SpecSmoother: one CursorSmoother under any sequence of       *)
(* method calls                                                               *)

InitSmoother == IdleBatch /\ InitCs /\ IdleSpring /\ IdleApp

DriveNew ==
    /\ csOps < MaxOps
    /\ \E cfg \in SmootherConfigs, threshold \in Thresholds : CsNew(cfg, threshold)
    /\ csOps' = csOps + 1
    /\ UNCHANGED <<batchVars, springVars, appVars>>

DriveUpdateConfig ==
    /\ csOps < MaxOps
    /\ \E cfg \in SmootherConfigs : CsUpdateConfig(cfg)
    /\ csOps' = csOps + 1
    /\ UNCHANGED <<batchVars, springVars, appVars>>

DriveSetTeleportThreshold ==
    /\ csOps < MaxOps
    /\ \E threshold \in Thresholds : CsSetTeleportThreshold(threshold)
    /\ csOps' = csOps + 1
    /\ UNCHANGED <<batchVars, springVars, appVars>>

DriveReset ==
    /\ csOps < MaxOps
    /\ \E p \in DriverSamples : CsReset(p.x, p.y)
    /\ csOps' = csOps + 1
    /\ UNCHANGED <<batchVars, springVars, appVars>>

DriveUpdate ==
    /\ csOps < MaxOps
    /\ \E raw \in DriverSamples, dt \in Dts : CsUpdate(raw, dt)
    /\ csOps' = csOps + 1
    /\ UNCHANGED <<batchVars, springVars, appVars>>

NextSmoother ==
    DriveNew \/ DriveUpdateConfig \/ DriveSetTeleportThreshold \/ DriveReset
    \/ DriveUpdate

SpecSmoother == InitSmoother /\ [][NextSmoother]_vars

----------------------------------------------------------------------------
(* Specification SpecSmootherCalls: the driver of SpecSmoother, which also    *)
(* reads the smoother with the two getters and calls stepSpring on a          *)
(* SpringState object it keeps.                                               *)

DriveGetCurrentPosition ==
    /\ csOps < MaxOps
    /\ CsGetCurrentPosition
    /\ csOps' = csOps + 1
    /\ UNCHANGED <<batchVars, springVars, appVars>>

DriveGetCurrentVelocity ==
    /\ csOps < MaxOps
    /\ CsGetCurrentVelocity
    /\ csOps' = csOps + 1
    /\ UNCHANGED <<batchVars, springVars, appVars>>

\* stepSpring(sp, target, config, dt), the driver keeping sp and the state returned
DriveStepSpring ==
    /\ \E dt \in Dts :
           \E e \in {stepSpringCall(sp, R(MaxCoord), spConfig, dt)} :
               /\ sp' = e.state
               /\ spReturned' = <<e.returned>>
    /\ UNCHANGED <<spTarget, spConfig, spDt, spStart, spSteps, batchVars, csVars, appVars>>

NextSmootherCalls ==
    \/ DriveNew \/ DriveUpdateConfig \/ DriveSetTeleportThreshold \/ DriveReset
    \/ DriveUpdate \/ DriveGetCurrentPosition \/ DriveGetCurrentVelocity
    \/ DriveStepSpring

SpecSmootherCalls == InitSmoother /\ [][NextSmootherCalls]_vars

----------------------------------------------------------------------------
(* Specification SpecSpring: one spring axis stepped again and again toward   *)
(* a fixed target with a fixed dt, as the preview loop and the batch loop do  *)

\* configurations the editor's sliders can produce (stiffness 100..800,
\* damping 20..150, mass 1..10)
SpringConfigs == {SLIDER_SPRING_CONFIG,
                  [stiffness |-> R(200), damping |-> R(20), mass |-> R(2)]}

InitSpring ==
    /\ IdleBatch
    /\ InitCs
    /\ IdleApp
    /\ \E p \in 0..MaxCoord : sp = createSpringState(R(p)) /\ spStart = R(p)
    /\ \E t \in 0..MaxCoord : spTarget = R(t)
    /\ spConfig \in SpringConfigs
    /\ spDt = <<1, 10>>
    /\ spSteps = 0
    /\ spReturned = <<>>

StepSpring ==
    /\ sp' = stepSpring(sp, spTarget, spConfig, spDt)
    /\ UNCHANGED <<spTarget, spConfig, spDt, spStart, spSteps, spReturned, batchVars, csVars,
                 appVars>>

NextSpring == StepSpring

SpecSpring == InitSpring /\ [][NextSpring]_vars /\ WF_vars(StepSpring)

----------------------------------------------------------------------------
(* Specification SpecDefaultSpring: the default spring stepped from rest      *)
(* toward a fixed target a bounded number of times, at the step of 60 frames  *)
(* per second and at the step of smoothMouseMoves' default outputFps = 30.    *)

SpringStarts == {0, 3}
SpringTargets == -5..5
DefaultDts == {Rat(1, 60), Rat(1, 30)}

InitDefaultSpring ==
    /\ IdleBatch
    /\ InitCs
    /\ IdleApp
    /\ \E p \in SpringStarts : sp = createSpringState(R(p)) /\ spStart = R(p)
    /\ \E t \in SpringTargets : spTarget = R(t)
    /\ spConfig = DEFAULT_SPRING_CONFIG
    /\ spDt \in DefaultDts
    /\ spSteps = 0
    /\ spReturned = <<>>

StepDefaultSpring ==
    /\ spSteps < MaxSteps
    /\ sp' = stepSpring(sp, spTarget, spConfig, spDt)
    /\ spSteps' = spSteps + 1
    /\ UNCHANGED <<spTarget, spConfig, spDt, spStart, spReturned, batchVars, csVars, appVars>>

NextDefaultSpring == StepDefaultSpring

SpecDefaultSpring == InitDefaultSpring /\ [][NextDefaultSpring]_vars

----------------------------------------------------------------------------
(* Specification SpecRecording: the RecordingView against the coordinator     *)

InitRecording ==
    /\ IdleBatch
    /\ InitCs
    /\ IdleSpring
    /\ IdlePointer
    /\ IdleOverlay
    /\ IdleEditor
    /\ recordingState = "idle"
    /\ isLoading = FALSE
    /\ error = <<>>
    /\ hasPermission \in {<<>>, <<TRUE>>}
    /\ selectedDisplayId \in {<<>>, <<1>>}
    /\ micEnabled = TRUE
    /\ cameraEnabled = TRUE
    /\ recordingTime = 0
    /\ invoked = <<>>
    /\ requests = <<>>
    /\ responses = {}
    /\ session = "Idle"
    /\ sessionChannels = <<>>
    /\ chan = [c \in Channels |-> "Uninitialized"]
    /\ stops = [c \in Channels |-> 0]
    /\ files = {}
    /\ bundle = <<>>
    /\ op = <<>>
    /\ startFailure = <<>>

ViewStep ==
    \/ handleStartRecording \/ startRecordingReturns
    \/ handleStopRecording \/ stopRecordingReturns
    \/ handlePauseRecording \/ pauseRecordingReturns
    \/ handleResumeRecording \/ resumeRecordingReturns
    \/ timerTick \/ toggleMic \/ toggleCamera

CoordStep ==
    \/ coordStartRecording \/ coordStartChannel \/ coordStartChannelFails
    \/ coordStartDone \/ coordPauseRecording \/ coordResumeRecording
    \/ coordStopRecording \/ coordStopChannel \/ coordStopDone
    \/ coordStopRecordingAgain \/ coordReject \/ channelCrash

NextRecording == ViewStep \/ CoordStep

SpecRecording == InitRecording /\ [][NextRecording]_vars

----------------------------------------------------------------------------
(* Specification SpecPointer: one pointer channel from start() to stop(), its *)
(* polling thread, the click listener and the clock.  The scheduler runs the  *)
(* polling thread and the thread that called stop() (weak fairness).          *)

InitPointer ==
    /\ IdleBatch /\ InitCs /\ IdleSpring /\ IdleRecording /\ IdlePointer /\ IdleOverlay
    /\ IdleEditor

NextPointer ==
    \/ channelStart \/ channelPause \/ channelResume
    \/ channelStopSignal \/ channelStopJoin
    \/ loopCheck \/ loopTickStart \/ loopSample \/ loopSleep
    \/ clickListener \/ clockAdvance

SpecPointer ==
    InitPointer /\ [][NextPointer]_vars /\ WF_vars(PollingThread) /\ WF_vars(channelStopJoin)

----------------------------------------------------------------------------
(* Specification SpecOverlay: the preview loading bundles, publishing cursor  *)
(* positions and being resized, with the overlay rendered after each change.  *)

InitOverlay ==
    /\ IdleBatch
    /\ InitCs
    /\ IdleSpring
    /\ IdleRecording
    /\ IdlePointer
    /\ IdleEditor
    /\ recordingBundle = <<>>
    /\ cursorPosition = <<>>
    /\ previewSize = [width |-> 800, height |-> 450]
    /\ cursorSize \in {R(1), Rat(3, 2)}
    /\ showDebug \in BOOLEAN
    /\ rendered = <<>>

NextOverlay == setRecordingBundle \/ setCursorPosition \/ setPreviewSize

SpecOverlay == InitOverlay /\ [][NextOverlay]_vars

----------------------------------------------------------------------------
(* Claims *)

\* exact integer ceiling of a/b for a >= 0, b > 0
CeilDiv(a, b) == (a + b - 1) \div b

\* the point (x, y) is farther than threshold from prev
FartherThan(prev, x, y, threshold) ==
    \/ threshold < 0
    \/ (x - prev.x) * (x - prev.x) + (y - prev.y) * (y - prev.y) > threshold * threshold

AtRest(axis, at) == axis = [position |-> R(at), velocity |-> R(0)]

\* C1 (teleport invariant): when an update's raw sample is farther than
\* teleportThreshold from the previous raw position, then right after the update the
\* smoothed position (returned and getCurrentPosition) is the sample's position and
\* the velocity is 0 on both axes, for every dt and config of the driver.
C1_TeleportInvariant ==
    (/\ csLog # <<>>
     /\ csLog[1].prev # <<>>
     /\ FartherThan(csLog[1].prev[1], csLog[1].x, csLog[1].y, csLog[1].threshold))
    => /\ AtRest(csLog[1].after.spring.x, csLog[1].x)
       /\ AtRest(csLog[1].after.spring.y, csLog[1].y)
       /\ getCurrentPosition(csLog[1].after) = [x |-> R(csLog[1].x), y |-> R(csLog[1].y)]
       /\ getCurrentVelocity(csLog[1].after) = [x |-> R(0), y |-> R(0)]
       /\ csOut[Len(csOut)].x = R(csLog[1].x)
       /\ csOut[Len(csOut)].y = R(csLog[1].y)

\* C1 witness: a teleporting update with dt > 0 and a valid config, whose spring was
\* not at the sample before
C1_Witness ==
    /\ csLog # <<>>
    /\ csLog[1].prev # <<>>
    /\ FartherThan(csLog[1].prev[1], csLog[1].x, csLog[1].y, csLog[1].threshold)
    /\ csLog[1].dt # R(0)
    /\ ValidConfig(csLog[1].config)
    /\ Len(csOut) >= 2
    /\ csOut[Len(csOut) - 1].x # R(csLog[1].x)

\* C2 (batch and incremental agree): every array smoothMouseMoves returned equals,
\* frame for frame, the results of the smoother that was built with the same config,
\* placed on the first sample and updated once per frame with that frame's
\* nearest-preceding sample (the first sample where none precedes) and dt = 1/outputFps.
C2_BatchEqualsIncremental ==
    \A i \in 1..Len(outputs) :
        /\ Len(csOut) <= Len(outputs[i])
        /\ \A f \in 1..Len(csOut) : csOut[f] = outputs[i][f]

\* C2 witness: the incremental run is complete, has at least two frames, and in one
\* of them the smoothed position lags the raw one
C2_Witness ==
    /\ Len(outputs) >= 1
    /\ Len(csOut) = Len(outputs[1])
    /\ Len(csOut) >= 2
    /\ \E f \in 1..Len(csOut) : csOut[f].x # R(csOut[f].rawX)

AtOrBefore(j, f) == moves[j].processTimeMs * outputFps <= (f - 1) * 1000

\* C4 as claimed (nearest-preceding-sample law): the sample taken for every frame is
\* at or before the frame's time and no later sample of the stream is.
C4_NearestPreceding ==
    \A f \in 1..Len(targets) :
        /\ AtOrBefore(targets[f], f)
        /\ \A j \in 1..Len(moves) : AtOrBefore(j, f) => j <= targets[f]

\* C4 as amended: when some sample is at or before the frame's time, the sample taken
\* is the last such sample of the stream; when none is, it is the first sample.
C4_NearestPrecedingOrFirst ==
    \A f \in 1..Len(targets) :
        IF \E j \in 1..Len(moves) : AtOrBefore(j, f)
        THEN /\ AtOrBefore(targets[f], f)
             /\ \A j \in 1..Len(moves) : AtOrBefore(j, f) => j <= targets[f]
        ELSE targets[f] = 1

\* C4 witness: the first sample is after frame 0, and a later frame takes a later
\* sample that lies exactly at the frame's time
C4_Witness ==
    /\ Len(targets) >= 2
    /\ moves[1].processTimeMs > 0
    /\ targets[1] = 1
    /\ targets[2] >= 2
    /\ moves[targets[2]].processTimeMs * outputFps = 1000

\* C5 as claimed (initial state, incremental mode): the first update on a newly
\* constructed CursorSmoother returns the sample's position.
C5_FirstUpdateAtSample ==
    (csLog # <<>> /\ csLog[1].prev = <<>>)
    => /\ csOut[Len(csOut)].x = R(csLog[1].x)
       /\ csOut[Len(csOut)].y = R(csLog[1].y)

\* the stepped spring is settled on its target
Settled == isSpringSettled(sp, spTarget, SETTLE_THRESHOLD)

\* C6 as claimed (convergence): stepping toward a fixed target with a fixed dt
\* eventually reaches a settled state and stays settled.
C6_Convergence == <>[]Settled

C8_InvalidConfigRejected ==
    /\ cs # <<>> => ValidConfig(cs[1].config)
    /\ csLog # <<>> => ValidConfig(csLog[1].config)

\* C9 (single-sample stream): every returned array has at least one frame, and every
\* frame has its smoothed and its raw position at the sample.
C9_SingleSample ==
    Len(moves) = 1 =>
        \A i \in 1..Len(outputs) :
            /\ Len(outputs[i]) >= 1
            /\ \A f \in 1..Len(outputs[i]) :
                /\ outputs[i][f].x = R(moves[1].x)
                /\ outputs[i][f].y = R(moves[1].y)
                /\ outputs[i][f].rawX = moves[1].x
                /\ outputs[i][f].rawY = moves[1].y

\* C9 witness: a single sample away from the origin and late enough for several frames
C9_Witness ==
    /\ Len(moves) = 1
    /\ moves[1].x # 0
    /\ Len(outputs) >= 1
    /\ Len(outputs[1]) >= 2

\* C10 (empty stream): every call returns the empty array and none throws.
C10_EmptyStream ==
    moves = <<>> => (~threw /\ \A i \in 1..Len(outputs) : outputs[i] = <<>>)

\* C10 witness: a call on the empty stream has returned
C10_Witness == moves = <<>> /\ Len(outputs) >= 1

\* before -> after is one semi-implicit Euler step toward target, stated without
\* division: mass * (v' - v) = (-stiffness * (p - target) - damping * v) * dt and
\* p' - p = v' * dt
EulerStep(before, after, target, cfg, dt) ==
    /\ RMul(cfg.mass, RSub(after.velocity, before.velocity))
           = RMul(RSub(RNeg(RMul(cfg.stiffness, RSub(before.position, target))),
                       RMul(cfg.damping, before.velocity)), dt)
    /\ RSub(after.position, before.position) = RMul(after.velocity, dt)

\* the spring an update steps: re-created at the sample on a teleport
SteppedFrom(self, x, y) ==
    IF self.lastRawPosition # <<>>
       /\ FartherThan(self.lastRawPosition[1], x, y, self.teleportThreshold)
    THEN [x |-> [position |-> R(x), velocity |-> R(0)],
          y |-> [position |-> R(y), velocity |-> R(0)]]
    ELSE self.spring

\* C11 (semi-implicit Euler): every update of a CursorSmoother moves the x axis by one
\* step toward the sample's x and the y axis by one step toward the sample's y, each
\* with new velocity = velocity + ((-stiffness * displacement - damping * velocity) /
\* mass) * dt and new position = position + new velocity * dt.
C11_SemiImplicitEuler ==
    [][(cs # <<>> /\ Len(csOut') = Len(csOut) + 1)
       => /\ EulerStep(SteppedFrom(cs[1], csLog'[1].x, csLog'[1].y).x, cs'[1].spring.x,
                       R(csLog'[1].x), cs[1].config, csLog'[1].dt)
          /\ EulerStep(SteppedFrom(cs[1], csLog'[1].x, csLog'[1].y).y, cs'[1].spring.y,
                       R(csLog'[1].y), cs[1].config, csLog'[1].dt)]_vars

\* C11 witness: an update with dt > 0 and a valid config has set the two axes moving at
\* different non-zero velocities toward different targets
C11_Witness ==
    /\ csLog # <<>>
    /\ csLog[1].dt # R(0)
    /\ ValidConfig(csLog[1].config)
    /\ csLog[1].x # csLog[1].y
    /\ cs[1].spring.x.velocity # R(0)
    /\ cs[1].spring.y.velocity # cs[1].spring.x.velocity
    /\ cs[1].spring.x.position # R(csLog[1].x)

\* the result carries the place and the cursor of the raw sample
CarriesRaw(result, raw) ==
    /\ result.rawX = raw.x
    /\ result.rawY = raw.y
    /\ result.cursorId = raw.cursorId

\* C12 (raw pass-through): the result of every update has rawX, rawY and cursorId of
\* the raw sample passed in, teleport or not, and every frame smoothMouseMoves
\* returned has rawX, rawY and cursorId of the sample selected as that frame's target.
C12_RawPassThrough ==
    /\ csLog # <<>> => CarriesRaw(csOut[Len(csOut)], csLog[1])
    /\ \A i \in 1..Len(outputs) :
           \A f \in 1..Len(outputs[i]) : CarriesRaw(outputs[i][f], moves[targets[f]])

\* C12 witness: a returned array has a frame taken after a jump beyond the teleport
\* threshold to a sample with another cursor, and an update has returned
C12_Witness ==
    /\ Len(outputs) >= 1
    /\ csLog # <<>>
    /\ \E f \in 2..Len(outputs[1]) :
           /\ outputs[1][f].rawX - outputs[1][f - 1].rawX > DEFAULT_TELEPORT_THRESHOLD
           /\ outputs[1][f].cursorId # outputs[1][f - 1].cursorId

\* the stream starts at the time origin and only its first sample is at time 0
StartsAtOrigin(ms) ==
    /\ ms # <<>>
    /\ ms[1].processTimeMs = 0
    /\ Len(ms) >= 2 => ms[2].processTimeMs > 0

\* C13 (first-frame rest): for a stream whose first sample is at time 0 and whose
\* second sample, if any, is later, frame 0 of every returned array targets the first
\* sample and has smoothed and raw position equal to the first sample's coordinates;
\* a two-sample stream whose second sample is one frame duration later yields exactly
\* one frame.
C13_FirstFrameRest ==
    StartsAtOrigin(moves) =>
        \A i \in 1..Len(outputs) :
            /\ Len(outputs[i]) >= 1
            /\ targets[1] = 1
            /\ outputs[i][1].rawX = moves[1].x
            /\ outputs[i][1].rawY = moves[1].y
            /\ outputs[i][1].x = R(moves[1].x)
            /\ outputs[i][1].y = R(moves[1].y)
            /\ (Len(moves) = 2 /\ moves[2].processTimeMs * outputFps = 1000)
                   => Len(outputs[i]) = 1

\* C13 witness: the default config has smoothed a two-sample stream that starts away
\* from the origin of the screen and whose second sample, elsewhere, is one frame later
C13_Witness ==
    /\ StartsAtOrigin(moves)
    /\ Len(outputs) >= 1
    /\ Len(moves) = 2
    /\ moves[2].processTimeMs * outputFps = 1000
    /\ moves[1].x # 0
    /\ moves[2].x # moves[1].x
    /\ config = DEFAULT_SPRING_CONFIG

\* results of a start_recording whose channel start failed, not yet delivered
StartFailures ==
    {r \in responses : r.cmd = "start_recording" /\ r.err.cause \in StartFailureCauses}

\* the state the coordinator leaves behind when the start of channel k failed
RolledBack(k) ==
    /\ \A j \in 1..(k - 1) :
           stops[sessionChannels[j]] = 1 /\ chan[sessionChannels[j]] = "Stopped"
    /\ \A j \in (k + 1)..Len(sessionChannels) :
           stops[sessionChannels[j]] = 0 /\ chan[sessionChannels[j]] = "Uninitialized"
    /\ files = {}
    /\ session = "Failed"
    /\ Cardinality(StartFailures) <= 1
    /\ \A r \in StartFailures : ~r.ok /\ r.err.channel = sessionChannels[k]

\* C14 (coordinator rollback): once the start of channel k has failed, every channel
\* started before k has had stop() called exactly once, no channel after k was
\* started, no output file remains, the session is not Active, and the one error of
\* the call names channel k; when the view's handler receives it, the error shown
\* is that error and recordingState is left as it was.
C14_Rollback ==
    /\ [](startFailure # <<>> => RolledBack(startFailure[1]))
    /\ [][\A r \in StartFailures :
              r \notin responses'
              => /\ error' = <<r.err>>
                 /\ r.err.channel = sessionChannels[startFailure[1]]
                 /\ recordingState' = recordingState
                 /\ ~isLoading']_vars

\* C14 witness: three channels configured, the first two started, the start of the
\* third failed, and the view shows the error naming it
C14_Witness ==
    /\ startFailure = <<3>>
    /\ Len(sessionChannels) = 3
    /\ error # <<>>
    /\ error[1].channel = sessionChannels[3]
    /\ stops[sessionChannels[1]] = 1
    /\ stops[sessionChannels[2]] = 1

\* Idle -> Starting -> Active <-> Paused -> Stopping -> Idle, Stopping being entered
\* from Active and from Paused, and Failed from Starting or Active
SessionEdges ==
    {<<"Idle", "Starting">>, <<"Starting", "Active">>, <<"Active", "Paused">>,
     <<"Paused", "Active">>, <<"Active", "Stopping">>, <<"Paused", "Stopping">>,
     <<"Stopping", "Idle">>, <<"Starting", "Failed">>, <<"Active", "Failed">>}

\* the view state an invocation may be sent from
SentFrom(cmd) ==
    CASE cmd = "start_recording" -> {"idle"}
      [] cmd = "pause_recording" -> {"recording"}
      [] cmd = "resume_recording" -> {"paused"}
      [] cmd = "stop_recording" -> {"recording", "paused"}

\* C15 (recording lifecycle): whatever calls the view issues and in whatever order
\* their results arrive, the session state changes only along Idle -> Starting ->
\* Active <-> Paused -> Stopping -> Idle (stop from Active or Paused), entering Failed
\* only from Starting or Active; and the view sends pause only from recording, resume
\* only from paused, start only from idle.
C15_Lifecycle ==
    /\ [][session' # session => <<session, session'>> \in SessionEdges]_vars
    /\ [](\A i \in 1..Len(invoked) : invoked[i].from \in SentFrom(invoked[i].cmd))

\* C15 witness: a session was started, paused, resumed and stopped
C15_Witness ==
    /\ SessionStopped
    /\ \E i, j \in 1..Len(invoked) :
           /\ i < j
           /\ invoked[i].cmd = "pause_recording"
           /\ invoked[j].cmd = "resume_recording"
    /\ recordingState = "idle"
    /\ responses = {}

\* the coordinator takes up a stopRecording on a session that has reached Stopped
StopsAgain ==
    /\ SessionStopped
    /\ op = <<>>
    /\ requests # <<>>
    /\ Head(requests).cmd = "stop_recording"
    /\ requests' = Tail(requests)

\* C16 (stopRecording idempotent): a stopRecording on a session that has reached
\* Stopped returns the session bundle descriptor of the first stop, calls stop() on
\* no channel, and changes no state and no output file.
C16_StopIdempotent ==
    [][StopsAgain
       => /\ stops' = stops
          /\ chan' = chan
          /\ files' = files
          /\ session' = session
          /\ bundle' = bundle
          /\ \E r \in responses' \ responses :
                 /\ r.id = Head(requests).id
                 /\ r.ok
                 /\ r.bundle = bundle
                 /\ bundle # <<>>
                 /\ responses' = responses \cup {r}]_vars

\* C16 witness: a second stop_recording has been answered on a stopped session whose
\* channels were each stopped once
C16_Witness ==
    /\ SessionStopped
    /\ \E i, j \in 1..Len(invoked) :
           /\ i < j
           /\ invoked[i].cmd = "stop_recording"
           /\ invoked[j].cmd = "stop_recording"
           /\ \E r \in responses : r.id = j /\ r.ok /\ r.bundle = bundle
    /\ \A k \in 1..Len(sessionChannels) : stops[sessionChannels[k]] = 1

\* C17 (cursor catalog first-seen-wins, append-only): a descriptor, once registered for
\* an id, is never overwritten or removed by a later lookup, also when its capture
\* failed (empty imagePath), and the capture function runs at most once per id.
C17_CatalogFirstSeenWins ==
    /\ [][\A id \in CursorIds :
              cursors[id] # <<>> => cursors'[id] = cursors[id] /\ captures'[id] = captures[id]]_vars
    /\ [](\A id \in CursorIds : captures[id] <= 1 /\ (captures[id] = 1 <=> cursors[id] # <<>>))

\* C17 witness: an id whose capture failed has been sampled a second time
C17_Witness ==
    /\ \E id \in CursorIds :
           /\ cursors[id] # <<>>
           /\ cursors[id][1].imagePath = ""
           /\ \E i, j \in 1..Len(mouseMoves) :
                  i < j /\ mouseMoves[i].cursorId = id /\ mouseMoves[j].cursorId = id

\* stop() has cleared the flag and waits for the polling thread
Joining == channelPc = "joining"

\* stop() has returned
Stopped == channelPc = "stopped"

\* C18 (cooperative stop of the polling loop): after stop() clears the recording flag
\* the polling thread appends at most one further sample and terminates, the join in
\* stop() returns, and the flush is made after the last append by a terminated thread.
C18_CooperativeStop ==
    /\ [](appendedAfterStop <= 1)
    /\ [](flushed # <<>> => threadPc = "done" /\ flushed[1].moves = mouseMoves)
    /\ (Joining ~> Stopped)

\* C18 witness: stop() has returned after the thread appended one sample past the
\* clearing of the flag, and that sample is in the flushed buffer
C18_Witness ==
    /\ channelPc = "stopped"
    /\ appendedAfterStop = 1
    /\ Len(mouseMoves) = 2
    /\ flushed[1].moves = mouseMoves

\* C19 (motion-stream ordering): in every state of the pointer channel the motion
\* buffer is ordered by non-decreasing processTimeMs, and no sample and no click has a
\* processTimeMs before the session time origin.
C19_MotionOrdered ==
    /\ \A i \in 1..(Len(mouseMoves) - 1) :
           mouseMoves[i].processTimeMs <= mouseMoves[i + 1].processTimeMs
    /\ \A i \in 1..Len(mouseMoves) : mouseMoves[i].processTimeMs >= 0
    /\ \A i \in 1..Len(mouseClicks) : mouseClicks[i].processTimeMs >= 0

\* C19 witness: a session whose time origin is not the clock's origin has two samples
\* taken at different times, a click, and stop() called while the polling was paused
C19_Witness ==
    /\ startTime > 0
    /\ Len(mouseMoves) = 2
    /\ mouseMoves[1].processTimeMs < mouseMoves[2].processTimeMs
    /\ Len(mouseClicks) = 1
    /\ pollingPaused
    /\ channelPc = "stopped"

\* the cursor glyphs among the elements of a render
Glyphs(elements) == SelectSeq(elements, LAMBDA e : e.kind \in {"img", "arrow"})

\* the container point that shows the smoothed position p of the video
ShownAt(p) ==
    LET props == overlayProps(recordingBundle[1], <<p>>, previewSize, cursorSize, showDebug)
        s == calculateScale(props.videoWidth, props.videoHeight,
                            props.containerWidth, props.containerHeight)
    IN  [x |-> RAdd(RMul(p.x, s.scale), s.offsetX),
         y |-> RAdd(RMul(p.y, s.scale), s.offsetY),
         cursorScale |-> RMul(s.scale, cursorSize)]

\* the descriptor of the position's cursorId has an image
HasCatalogImage(p) ==
    /\ p.cursorId \in DOMAIN recordingBundle[1].cursors
    /\ recordingBundle[1].cursors[p.cursorId].imagePath # ""

\* C20: a null position renders nothing.  A non-null smoothed position renders
\* exactly one cursor glyph, at the smoothed position: the catalog image, its
\* hotspot on the position, when the position's cursorId maps to a descriptor
\* with a non-empty imagePath, and the generic arrow otherwise (id absent from
\* the catalog, or a descriptor with an empty imagePath).
C20_GenericCursorFallback ==
    /\ cursorPosition = <<>> => rendered = <<>>
    /\ cursorPosition # <<>> =>
        LET p == cursorPosition[1]
            at == ShownAt(p)
            g == Glyphs(rendered)
        IN  /\ Len(g) = 1
            /\ IF HasCatalogImage(p)
               THEN LET info == recordingBundle[1].cursors[p.cursorId]
                    IN  /\ g[1].kind = "img"
                        /\ g[1].src = convertFileSrc(info.imagePath)
                        /\ RAdd(g[1].left, RMul(R(info.hotspotX), at.cursorScale)) = at.x
                        /\ RAdd(g[1].top, RMul(R(info.hotspotY), at.cursorScale)) = at.y
               ELSE /\ g[1].kind = "arrow"
                    /\ g[1].left = at.x
                    /\ g[1].top = at.y

\* a position whose descriptor has a hotspot but no image was rendered as the
\* arrow, next to the debug elements
C20_Witness ==
    /\ cursorPosition # <<>>
    /\ cursorPosition[1].cursorId \in DOMAIN recordingBundle[1].cursors
    /\ recordingBundle[1].cursors[cursorPosition[1].cursorId].imagePath = ""
    /\ recordingBundle[1].cursors[cursorPosition[1].cursorId].hotspotX = 4
    /\ showDebug
    /\ Len(rendered) = 4
    /\ rendered[1].kind = "arrow"

\* how far the axis is past its target, seen from where it started
PastTarget ==
    IF RLe(spStart, spTarget) THEN RSub(sp.position, spTarget)
    ELSE RSub(spTarget, sp.position)

\* C21 as claimed (no overshoot with the default spring): stepping from rest toward
\* a fixed target with DEFAULT_SPRING_CONFIG at dt = 1/60 or dt = 1/30, the position
\* is at no step beyond the target by more than 5% of the initial distance.
C21_NoOvershoot ==
    RLe(PastTarget, RDiv(RAbs(RSub(spTarget, spStart)), R(20)))

\* the rejections of start_recording and stop_recording delivered by this step
RejectionsDelivered ==
    {r \in responses : /\ r \notin responses'
                       /\ ~r.ok
                       /\ r.cmd \in {"start_recording", "stop_recording"}}

\* every start_recording was invoked with recordingState = "idle"
StartsFromIdle ==
    \A i \in 1..Len(invoked) :
        invoked[i].cmd = "start_recording" => invoked[i].from = "idle"

Called(method) == csOps' = csOps + 1 /\ csCall' # <<>> /\ csCall'[1].op = method

\* the step is the first update after a reset
UpdateAfterReset == Called("update") /\ csCall # <<>> /\ csCall[1].op = "reset"

\* C23 (reset): reset(x, y) leaves the spring at rest at (x, y) and (x, y) as the
\* previous raw position.  The next update measures the teleport distance from (x, y):
\* a sample farther than the threshold from (x, y) is taken at once, at rest; a sample
\* at (x, y) itself returns exactly (x, y) with zero velocity.
C23_Reset ==
    /\ [][Called("reset") =>
            /\ AtRest(cs'[1].spring.x, csCall'[1].x)
            /\ AtRest(cs'[1].spring.y, csCall'[1].y)
            /\ cs'[1].lastRawPosition = <<[x |-> csCall'[1].x, y |-> csCall'[1].y]>>]_vars
    /\ [][UpdateAfterReset =>
            /\ csLog'[1].prev = <<[x |-> csCall[1].x, y |-> csCall[1].y]>>
            /\ FartherThan([x |-> csCall[1].x, y |-> csCall[1].y],
                           csCall'[1].x, csCall'[1].y, cs[1].teleportThreshold)
                 => /\ AtRest(cs'[1].spring.x, csCall'[1].x)
                    /\ AtRest(cs'[1].spring.y, csCall'[1].y)
            /\ ~FartherThan([x |-> csCall[1].x, y |-> csCall[1].y],
                            csCall'[1].x, csCall'[1].y, cs[1].teleportThreshold)
                 => cs'[1].spring = stepSpring2D(
                        createSpring2D(R(csCall[1].x), R(csCall[1].y)),
                        R(csCall'[1].x), R(csCall'[1].y), cs[1].config, csLog'[1].dt)
            /\ (csCall'[1].x = csCall[1].x /\ csCall'[1].y = csCall[1].y)
                 => /\ AtRest(cs'[1].spring.x, csCall[1].x)
                    /\ AtRest(cs'[1].spring.y, csCall[1].y)
                    /\ csOut'[Len(csOut')].x = R(csCall[1].x)
                    /\ csOut'[Len(csOut')].y = R(csCall[1].y)]_vars

\* an update with dt > 0 right after a reset to (6, 8), of a sample more than the
\* threshold away from (6, 8), by a smoother whose sample before the reset was that
\* same sample
C23_Witness ==
    /\ csCall # <<>>
    /\ csCall[1].op = "update"
    /\ csLog # <<>>
    /\ csLog[1].prev = <<[x |-> 6, y |-> 8]>>
    /\ csLog[1].x = 0
    /\ csLog[1].threshold = 5
    /\ csLog[1].dt # R(0)
    /\ Len(csOut) >= 2
    /\ csOut[Len(csOut) - 1].rawX = 0
    /\ AtRest(cs[1].spring.x, 0)

\* the spring the update of this step has stepped from, decided with the threshold
\* the smoother had before the step
SteppedFromWith(threshold) ==
    IF cs[1].lastRawPosition # <<>>
       /\ FartherThan(cs[1].lastRawPosition[1], csCall'[1].x, csCall'[1].y, threshold)
    THEN createSpring2D(R(csCall'[1].x), R(csCall'[1].y))
    ELSE cs[1].spring

\* C24 (frame of the non-stepping operations): updateConfig stores the new config and
\* setTeleportThreshold the new threshold, and neither changes the spring's position
\* and velocity, the previous raw position or the other parameter; the update that
\* follows uses the new value.  getCurrentPosition and getCurrentVelocity return the
\* spring's position and velocity and change nothing.  stepSpring returns a state and
\* leaves the state passed in as it was.
C24_NonSteppingFrame ==
    /\ [][Called("updateConfig") =>
            cs' = <<[cs[1] EXCEPT !.config = csCall'[1].arg]>>]_vars
    /\ [][Called("setTeleportThreshold") =>
            cs' = <<[cs[1] EXCEPT !.teleportThreshold = csCall'[1].arg]>>]_vars
    /\ [][(Called("update") /\ csCall[1].op = "updateConfig") =>
            cs'[1].spring = stepSpring2D(SteppedFromWith(cs[1].teleportThreshold),
                                         R(csCall'[1].x), R(csCall'[1].y),
                                         csCall[1].arg, csCall'[1].arg)]_vars
    /\ [][(Called("update") /\ csCall[1].op = "setTeleportThreshold") =>
            cs'[1].spring = stepSpring2D(SteppedFromWith(csCall[1].arg),
                                         R(csCall'[1].x), R(csCall'[1].y),
                                         cs[1].config, csCall'[1].arg)]_vars
    /\ [][Called("getCurrentPosition") =>
            /\ UNCHANGED <<cs, csOut, csLog>>
            /\ csCall'[1].x = cs[1].spring.x.position
            /\ csCall'[1].y = cs[1].spring.y.position]_vars
    /\ [][Called("getCurrentVelocity") =>
            /\ UNCHANGED <<cs, csOut, csLog>>
            /\ csCall'[1].x = cs[1].spring.x.velocity
            /\ csCall'[1].y = cs[1].spring.y.velocity]_vars
    /\ [][spReturned' # <<>> => sp' = sp]_vars

\* the velocity of a moving smoother was read after its config had been changed, and
\* a stepSpring call of the driver has returned a state away from the one passed in
C24_Witness ==
    /\ csCall # <<>>
    /\ csCall[1].op = "getCurrentVelocity"
    /\ csCall[1].x # R(0)
    /\ cs[1].config # DEFAULT_SPRING_CONFIG
    /\ csLog # <<>>
    /\ csLog[1].config = DEFAULT_SPRING_CONFIG
    /\ spReturned # <<>>
    /\ spReturned[1] # sp

\* the frames of the array returned last
LastOutput == outputs[Len(outputs)]

\* frame f has taken its target at once: it is exactly on its raw position, where
\* the frame before was not
HardResetAt(f) ==
    /\ LastOutput[f].x = R(LastOutput[f].rawX)
    /\ LastOutput[f].y = R(LastOutput[f].rawY)
    /\ \/ LastOutput[f - 1].x # LastOutput[f].x
       \/ LastOutput[f - 1].y # LastOutput[f].y

\* samples i and j of the stream are more than the teleport threshold apart
Apart(i, j) ==
    FartherThan(moves[i], moves[j].x, moves[j].y, DEFAULT_TELEPORT_THRESHOLD)

\* C28 as claimed (batch teleport granularity): a frame is hard-reset to its target
\* only if two consecutive samples of the stream, between the previous frame's target
\* and this frame's target, are more than teleportThreshold apart; a run of samples
\* each within the threshold of its predecessor causes no reset.
C28_SampleGranularity ==
    outputs # <<>> =>
        \A f \in 2..Len(targets) :
            HardResetAt(f) =>
                \E j \in targets[f - 1]..(targets[f] - 1) : Apart(j, j + 1)

\* what smoothMouseMoves does instead (C28): a frame is hard-reset to its target exactly when its target is more
\* than teleportThreshold away from the target of the frame before; the samples
\* between the two targets are not looked at.
C28_FrameGranularity ==
    outputs # <<>> =>
        \A f \in 2..Len(targets) :
            /\ HardResetAt(f) => Apart(targets[f - 1], targets[f])
            /\ Apart(targets[f - 1], targets[f]) =>
                   /\ LastOutput[f].x = R(LastOutput[f].rawX)
                   /\ LastOutput[f].y = R(LastOutput[f].rawY)

\* C28, the failing case: a frame was hard-reset over a run of samples each within
\* the threshold of the one before it
C28_Witness ==
    /\ outputs # <<>>
    /\ \E f \in 2..Len(targets) :
           /\ HardResetAt(f)
           /\ targets[f] >= targets[f - 1] + 2
           /\ \A j \in targets[f - 1]..(targets[f] - 1) : ~Apart(j, j + 1)

\* no invocation is pending: none waits for the backend, none is being executed, and
\* no result waits for its handler
NoInvocationPending == requests = <<>> /\ responses = {} /\ op = <<>>

\* C27 (view and backend agree): once no invocation is pending, recordingState is
\* "idle" exactly when the backend session is stopped; a pause or resume response
\* delivered after a successful stop does not leave the view in "paused" or
\* "recording".
C27_ViewAgreesWithSession ==
    NoInvocationPending => (recordingState = "idle" <=> session \in {"Idle", "Failed"})

\* C27, the failing case: with nothing pending, the backend session is stopped by a
\* successful stop and the view shows "paused" or "recording"
C27_Witness ==
    /\ NoInvocationPending
    /\ SessionStopped
    /\ recordingState \in {"paused", "recording"}

\* this step is a call of update on the view's smoother
UpdateCalled == Len(csOut') = Len(csOut) + 1

\* C25 (frame dt): every dt the animation loop passes to CursorSmoother.update lies in
\* [0, 0.1] seconds whatever the gap between the frame timestamps, and the first frame
\* after playback starts, or restarts after a pause, passes dt = 0.
C25_FrameDt ==
    [][UpdateCalled =>
           /\ RLe(R(0), csLog'[1].dt)
           /\ RLe(csLog'[1].dt, Rat(1, 10))
           /\ framesRun = 0 => csLog'[1].dt = R(0)]_vars

\* playback restarted after a pause, and its first frame, 250 ms after the frame
\* before it, passed dt = 0 to the second update
C25_Witness ==
    /\ framesRun = 1
    /\ Len(csOut) = 2
    /\ csLog # <<>>
    /\ csLog[1].dt = R(0)
    /\ frameClock >= 300

\* this step is a seek that reset the view's smoother; csCall then holds the sample it
\* was reset to and the time of the seek
SeekReset ==
    /\ csCall' # <<>>
    /\ csCall'[1].op = "reset"
    /\ csCall' # csCall \/ cs' # cs

\* the smoother a seek to the sample at (x, y) leaves, whatever was played before
FreshAt(x, y) ==
    reset(NewCursorSmoother(springConfig, DEFAULT_TELEPORT_THRESHOLD), x, y)

\* C26 (seek resets the smoother): after a timeline click to time T with a recording
\* loaded, if a raw sample exists at or before T the smoother is at that sample's
\* position with zero velocity; the first update after the seek returns what a
\* smoother freshly reset to that sample returns, so it does not ease from the
\* position before the seek nor depend on a sample seen before it.
C26_SeekResets ==
    [][/\ SeekReset =>
              /\ \E i \in 1..Len(recordingBundle[1].mouseMoves) :
                     /\ recordingBundle[1].mouseMoves[i].processTimeMs <= csCall'[1].arg
                     /\ recordingBundle[1].mouseMoves[i].x = csCall'[1].x
                     /\ recordingBundle[1].mouseMoves[i].y = csCall'[1].y
              /\ AtRest(cs'[1].spring.x, csCall'[1].x)
              /\ AtRest(cs'[1].spring.y, csCall'[1].y)
       /\ (UpdateCalled /\ csCall # <<>> /\ csCall[1].op = "reset") =>
              \E raw \in {[x |-> csLog'[1].x, y |-> csLog'[1].y,
                           cursorId |-> csLog'[1].cursorId, processTimeMs |-> 0]} :
                  csOut'[Len(csOut')] =
                      updateResult(update(FreshAt(csCall[1].x, csCall[1].y), raw,
                                          csLog'[1].dt), raw)]_vars

\* an update with dt > 0 followed a seek that had moved the smoother away from the
\* sample of the update before
C26_Witness ==
    /\ Len(csOut) >= 2
    /\ csLog # <<>>
    /\ csLog[1].dt # R(0)
    /\ csLog[1].prev # <<>>
    /\ csLog[1].prev[1].x # csOut[Len(csOut) - 1].rawX
    /\ csCall # <<>>
    /\ csCall[1].op = "update"

\* C29 (one pending frame, none after pause): at most one animation-frame callback is
\* requested at any time, and while isPlaying is false no step calls
\* CursorSmoother.update or sets the cursor position, under any interleaving of play
\* and pause events with the frame callbacks.
C29_SingleFrameLoop ==
    /\ [](Cardinality(frameRequests) <= 1)
    /\ [][~isPlaying =>
              /\ csOut' = csOut
              /\ csLog' = csLog
              /\ cursorPosition' = cursorPosition]_vars

\* a pause has cancelled the frame requested by a frame that had updated the smoother
C29_Witness ==
    /\ ~isPlaying
    /\ csOut # <<>>
    /\ animationRef = <<>>
    /\ frameRequests = {}
    /\ nextFrameId >= 3

\* C30 (sliders keep the smoothing state): after updateSpringConfig changes stiffness,
\* damping or mass during playback, the smoother the next frame uses has the position,
\* velocity and previous raw position of the smoother before the change; only its
\* config differs.
C30_ConfigChangeKeepsState ==
    [][(isPlaying /\ springConfig' # springConfig) =>
           cs' = <<updateConfig(cs[1], springConfig')>>]_vars

\* C30, the failing case: during playback, after frames have moved the smoother, the
\* smoother is at the origin again with no previous raw position, under a changed
\* config
C30_Witness ==
    /\ isPlaying
    /\ Len(csOut) >= 2
    /\ springConfig # DEFAULT_SPRING_CONFIG
    /\ cs = <<NewCursorSmoother(springConfig, DEFAULT_TELEPORT_THRESHOLD)>>
    /\ csOut[Len(csOut)].x # R(0)

====
